---- MODULE Spec2Model ----
(***************************************************************************)
(* Model of bridgestrap's per-bridge event parser (TorEventState) and of   *)
(* its result cache (TestCache).  Strings are sequences of one-character   *)
(* strings, so that the regular expressions and the slice comparisons of   *)
(* the Go code are computed character by character.                        *)
(***************************************************************************)
EXTENDS Integers, Sequences, FiniteSets, TLC

\* ------------------------------------------------------------------------
\* String constants
\* ------------------------------------------------------------------------
F1 == <<"0","1","2","3","4","5","6","7","8","9","A","B","C","D","E","F","0","1","2","3","4","5","6","7","8","9","A","B","C","D","E","F","0","1","2","3","4","5","6","7">>
F2 == <<"1","0","A","6","C","D","3","6","A","5","3","7","F","C","E","5","1","3","A","3","2","2","3","6","1","5","4","7","4","4","4","B","3","9","3","9","8","9","F","0">>
S650ORCONN == <<"6","5","0"," ","O","R","C","O","N","N">>
S650NEWDESC == <<"6","5","0"," ","N","E","W","D","E","S","C">>
SORCONNsp == <<"O","R","C","O","N","N"," ">>
SIDeq == <<"I","D","=">>
SREASONeq == <<"R","E","A","S","O","N","=">>
AP1 == <<"1",".","2",".","3",".","4",":","2","2","2","2">>
AP2 == <<"1",".","2",".","3",".","4",":","2","2">>
LAUNCHED == <<"L","A","U","N","C","H","E","D">>
CONNECTED == <<"C","O","N","N","E","C","T","E","D">>
FAILED == <<"F","A","I","L","E","D">>
CLOSED == <<"C","L","O","S","E","D">>
DONE == <<"D","O","N","E">>
CONNECTREFUSED == <<"C","O","N","N","E","C","T","R","E","F","U","S","E","D">>
IDENTITY == <<"I","D","E","N","T","I","T","Y">>
CONNECTRESET == <<"C","O","N","N","E","C","T","R","E","S","E","T">>
TIMEOUT == <<"T","I","M","E","O","U","T">>
NOROUTE == <<"N","O","R","O","U","T","E">>
IOERROR == <<"I","O","E","R","R","O","R">>
RESOURCELIMIT == <<"R","E","S","O","U","R","C","E","L","I","M","I","T">>
PT_MISSING == <<"P","T","_","M","I","S","S","I","N","G">>
MISC == <<"M","I","S","C">>
BOGUS == <<"B","O","G","U","S">>
Nick == <<"~","d","r","a","g","o","n">>
MaxInt64Digits == <<"9","2","2","3","3","7","2","0","3","6","8","5","4","7","7","5","8","0","7">>
TooBigDigits == <<"9","9","9","9","9","9","9","9","9","9","9","9","9","9","9","9","9","9","9","9">>
Reply250 == <<"2","5","0"," ","O","K">>

EmptyStr == << >>
Dollar == <<"$">>
Space == <<" ">>

\* ------------------------------------------------------------------------
\* Character classes and the primitive steps of the regular expressions
\* ------------------------------------------------------------------------
DigitChars == <<"0","1","2","3","4","5","6","7","8","9">>
UpperChars == <<"A","B","C","D","E","F","G","H","I","J","K","L","M","N","O","P","Q","R","S","T","U","V","W","X","Y","Z">>
HexChars   == <<"A","B","C","D","E","F">>

Range(f) == {f[i] : i \in DOMAIN f}

DigitSet == Range(DigitChars)
UpperSet == Range(UpperChars)
HexSet   == Range(HexChars) \cup Range(DigitChars)

IsDigit(c)    == c \in DigitSet
IsUpper(c)    == c \in UpperSet
IsHexUpper(c) == c \in HexSet
IsNotSpace(c) == c # " "
IsDot(c)      == c # "\n"

Min2(a, b) == IF a < b THEN a ELSE b
MaxOf(S)   == CHOOSE x \in S : \A y \in S : y <= x
MinOf(S)   == CHOOSE x \in S : \A y \in S : x <= y

\* the literal p occurs in s at position i
IsAt(p, s, i) ==
    /\ i >= 1
    /\ i + Len(p) - 1 <= Len(s)
    /\ \A k \in 1..Len(p) : s[i + k - 1] = p[k]

\* first index at or after i that is past the greedy run of characters of
\* the class C starting at i (i itself when the run is empty)
RunEnd(C(_), s, i) ==
    MinOf({j \in i..(Len(s) + 1) : j = Len(s) + 1 \/ ~C(s[j])})

\* every character of s in i..j-1 is matched by `.`
AllDot(s, i, j) == \A k \in i..(j - 1) : IsDot(s[k])

\* ------------------------------------------------------------------------
\* events: constants and regular expressions
\* ------------------------------------------------------------------------
BridgeFingerprintLen == 40
\* iota counts the lines of the const block, so the first state is 1.
BridgeStatePending == 1
BridgeStateSuccess == 2
BridgeStateFailure == 3

\* OrConnEvent = `^650 ORCONN`
OrConnEventMatch(line) == IsAt(S650ORCONN, line, 1)

\* NewDescEvent = `^650 NEWDESC`
NewDescEventMatch(line) == IsAt(S650NEWDESC, line, 1)

\* the element of a singleton
The(S) == CHOOSE x \in S : TRUE

\* One attempt of `ORCONN ([^ ]*) ([^ ]*).*ID=([0-9]*)` at position p:
\* << >> when it fails, else <<whole match, group 1, group 2, group 3>>.
\* Group 1 is the greedy run up to the next space.  Group 2 is greedy but
\* gives characters back until an "ID=" follows; `.*` is greedy, so the
\* last "ID=" on the line is the one that is taken.
\* The groups, given the end e2 of group 2 and the position q of "ID=".
OrConnFieldsGroups(s, p, b1, e1, e2, q) ==
    The({ << SubSeq(s, p, e3 - 1), SubSeq(s, b1, e1 - 1),
             SubSeq(s, e1 + 1, e2 - 1), SubSeq(s, q + Len(SIDeq), e3 - 1) >>
          : e3 \in {RunEnd(IsDigit, s, q + Len(SIDeq))} })

\* Group 2 may end at any k of b2..e2max after which `.*ID=` matches; IdQs
\* are the positions of "ID=" on the line.
OrConnFieldsBacktrack(s, p, b1, e1, e2max, IdQs) ==
    The({ IF Ends = {} THEN << >>
          ELSE The({ The({ OrConnFieldsGroups(s, p, b1, e1, e2, q)
                           : q \in {x \in IdQs :
                                     /\ x >= e2 /\ AllDot(s, e2, x)
                                     /\ \A y \in IdQs : (y >= e2 /\ AllDot(s, e2, y)) => y <= x} })
                     : e2 \in {k \in Ends : \A m \in Ends : m <= k} })
          : Ends \in {{k \in (e1 + 1)..e2max :
                         \E x \in IdQs : x >= k /\ AllDot(s, k, x)}} })

OrConnFieldsAt(s, p) ==
    IF ~IsAt(SORCONNsp, s, p) THEN << >>
    ELSE The({ IF e1 > Len(s) THEN << >>
               ELSE The({ OrConnFieldsBacktrack(s, p, p + Len(SORCONNsp), e1, e2max, IdQs)
                          : e2max \in {RunEnd(IsNotSpace, s, e1 + 1)},
                            IdQs \in {{x \in (e1 + 1)..Len(s) : IsAt(SIDeq, s, x)}} })
               : e1 \in {RunEnd(IsNotSpace, s, p + Len(SORCONNsp))} })

\* OrConnFields.FindStringSubmatch: the leftmost match, nil (length 0) if none
OrConnFieldsFind(line) ==
    LET Starts == {p \in 1..Len(line) : OrConnFieldsAt(line, p) # << >>}
    IN IF Starts = {} THEN << >> ELSE OrConnFieldsAt(line, MinOf(Starts))

\* OrConnReasonField = `^650 ORCONN.*REASON=([A-Z]*)`, FindStringSubmatch
OrConnReasonFieldFind(line) ==
    LET b  == Len(S650ORCONN) + 1
        Qs == {q \in b..Len(line) : IsAt(SREASONeq, line, q) /\ AllDot(line, b, q)}
    IN IF ~IsAt(S650ORCONN, line, 1) \/ Qs = {} THEN << >>
       ELSE LET g == MaxOf(Qs) + Len(SREASONeq)
                e == RunEnd(IsUpper, line, g)
            IN << SubSeq(line, 1, e - 1), SubSeq(line, g, e - 1) >>

\* Fingerprint = `([A-F0-9]{40})`, Find: the leftmost run of 40 hex digits
FingerprintFind(line) ==
    LET Starts == {p \in 1..(Len(line) - BridgeFingerprintLen + 1) :
                     \A k \in 0..(BridgeFingerprintLen - 1) : IsHexUpper(line[p + k])}
    IN IF Starts = {} THEN EmptyStr
       ELSE SubSeq(line, MinOf(Starts), MinOf(Starts) + BridgeFingerprintLen - 1)

\* ------------------------------------------------------------------------
\* The event lines fed to the parser.  An event is described by its fields
\* and rendered to the text of the control-port line; Feed sees the text only.
\* ------------------------------------------------------------------------
OrConnEv(target, verb, reason, hasId, id) ==
    [kind |-> "ORCONN", target |-> target, verb |-> verb, reason |-> reason,
     hasId |-> hasId, id |-> id, text |-> EmptyStr]

NewDescEv(target) ==
    [kind |-> "NEWDESC", target |-> target, verb |-> EmptyStr, reason |-> EmptyStr,
     hasId |-> FALSE, id |-> EmptyStr, text |-> EmptyStr]

RawEv(text) ==
    [kind |-> "RAW", target |-> EmptyStr, verb |-> EmptyStr, reason |-> EmptyStr,
     hasId |-> FALSE, id |-> EmptyStr, text |-> text]

NoEvent ==
    [kind |-> "NONE", target |-> EmptyStr, verb |-> EmptyStr, reason |-> EmptyStr,
     hasId |-> FALSE, id |-> EmptyStr, text |-> EmptyStr]

\* 650 ORCONN <target> <verb>[ REASON=<reason>][ ID=<id>]
\* 650 NEWDESC <target>
Render(e) ==
    IF e.kind = "ORCONN"
    THEN S650ORCONN \o Space \o e.target \o Space \o e.verb
         \o (IF e.reason = EmptyStr THEN EmptyStr ELSE Space \o SREASONeq \o e.reason)
         \o (IF e.hasId THEN Space \o SIDeq \o e.id ELSE EmptyStr)
    ELSE IF e.kind = "NEWDESC" THEN S650NEWDESC \o Space \o e.target
    ELSE e.text

Identities == {AP1, AP2, Dollar \o F1}

Ids == {<<"5">>, <<"7">>}

KnownReasons == {DONE, CONNECTREFUSED, IDENTITY, CONNECTRESET, TIMEOUT, NOROUTE,
                 IOERROR, RESOURCELIMIT, PT_MISSING, MISC}

LaunchedEvents ==
    {OrConnEv(tg, LAUNCHED, EmptyStr, TRUE, id) :
        tg \in {AP1, AP2, Dollar \o F1, Dollar \o F1 \o Nick, Dollar \o F2, EmptyStr},
        id \in Ids}

ConnectedEvents ==
    {OrConnEv(tg, CONNECTED, EmptyStr, TRUE, id) :
        tg \in {Dollar \o F1, Dollar \o F1 \o Nick, Dollar \o F2, AP1}, id \in Ids}

FailedEvents ==
    {OrConnEv(AP1, FAILED, r, TRUE, <<"5">>) : r \in KnownReasons \cup {BOGUS, EmptyStr}}
    \cup {OrConnEv(AP1, FAILED, DONE, TRUE, <<"7">>)}

ClosedEvents ==
    {OrConnEv(Dollar \o F1 \o Nick, CLOSED, r, TRUE, id) :
        r \in {DONE, IOERROR, EmptyStr}, id \in Ids}

NewDescEvents ==
    {NewDescEv(Dollar \o f \o n) : f \in {F1, F2}, n \in {EmptyStr, Nick}}

MalformedEvents ==
    { OrConnEv(AP1, LAUNCHED, EmptyStr, FALSE, EmptyStr),
      OrConnEv(AP1, LAUNCHED, EmptyStr, TRUE, <<"x">>),
      OrConnEv(AP1, FAILED, DONE, TRUE, <<"x">>),
      OrConnEv(AP1, LAUNCHED, EmptyStr, TRUE, TooBigDigits),
      NewDescEv(Dollar \o SubSeq(F1, 1, BridgeFingerprintLen - 1)),
      NewDescEv(EmptyStr),
      RawEv(S650ORCONN), RawEv(Reply250), RawEv(EmptyStr) }

Events == LaunchedEvents \cup ConnectedEvents \cup FailedEvents \cup ClosedEvents
          \cup NewDescEvents \cup MalformedEvents

\* The regular expressions applied to the lines of Events, computed once
\* per line.
Lines == {Render(e) : e \in Events}

RegexpTable ==
    [ln \in Lines |->
        [OrConnEvent       |-> OrConnEventMatch(ln),
         NewDescEvent      |-> NewDescEventMatch(ln),
         OrConnFields      |-> OrConnFieldsFind(ln),
         OrConnReasonField |-> OrConnReasonFieldFind(ln),
         Fingerprint       |-> FingerprintFind(ln)]]

OrConnEvent(line)       == RegexpTable[line].OrConnEvent
NewDescEvent(line)      == RegexpTable[line].NewDescEvent
OrConnFields(line)      == RegexpTable[line].OrConnFields
OrConnReasonField(line) == RegexpTable[line].OrConnReasonField
Fingerprint(line)       == RegexpTable[line].Fingerprint

extractFingerprint(line) ==
    LET result == Fingerprint(line)
    IN [val |-> result, err |-> (result = EmptyStr)]

reasons ==
    (DONE           :> "The OR connection has shut down cleanly.") @@
    (CONNECTREFUSED :> "We got an ECONNREFUSED while connecting to the target OR.") @@
    (IDENTITY       :> "We connected to the OR, but found that its identity was not what we expected.") @@
    (CONNECTRESET   :> "We got an ECONNRESET or similar IO error from the connection with the OR.") @@
    (TIMEOUT        :> "We got an ETIMEOUT or similar IO error from the connection with the OR, or we're closing the connection for being idle for too long.") @@
    (NOROUTE        :> "We got an ENOTCONN, ENETUNREACH, ENETDOWN, EHOSTUNREACH, or similar error while connecting to the OR.") @@
    (IOERROR        :> "We got some other IO error on our connection to the OR.") @@
    (RESOURCELIMIT  :> "We don't have enough operating system resources (file descriptors, buffers, etc) to connect to the OR.") @@
    (PT_MISSING     :> "No pluggable transport was available.") @@
    (MISC           :> "The OR connection closed for some other reason.")

\* getFailureDesc with a code that is not in the map described as MISC
getFailureDesc_DefaultMisc(line) ==
    LET matches == OrConnReasonField(line)
    IN IF Len(matches) # 2 THEN [val |-> "", err |-> TRUE]
       ELSE IF matches[2] \notin DOMAIN reasons THEN [val |-> reasons[MISC], err |-> FALSE]
       ELSE [val |-> reasons[matches[2]], err |-> FALSE]

getFailureDesc(line) ==
    LET matches == OrConnReasonField(line)
    IN IF Len(matches) # 2 THEN [val |-> "", err |-> TRUE]
       ELSE IF matches[2] \notin DOMAIN reasons THEN [val |-> "", err |-> TRUE]
       ELSE [val |-> reasons[matches[2]], err |-> FALSE]

\* calcMatchLength that starts from len(target1) without taking the minimum
calcMatchLength_NoMin(target1, target2) ==
    LET length == Len(target1)
    IN IF length > BridgeFingerprintLen + 1 THEN BridgeFingerprintLen + 1 ELSE length

calcMatchLength(target1, target2) ==
    LET length == IF Len(target2) < Len(target1) THEN Len(target2) ELSE Len(target1)
    IN IF length > BridgeFingerprintLen + 1 THEN BridgeFingerprintLen + 1 ELSE length

\* strconv.Atoi on a run of decimal digits: an error for the empty string
\* and for a value above the largest int (64 bits), else the value.
RECURSIVE StripZeros(_)
StripZeros(d) == IF Len(d) > 1 /\ d[1] = "0" THEN StripZeros(Tail(d)) ELSE d

DigitVal(c) == (CHOOSE i \in DOMAIN DigitChars : DigitChars[i] = c) - 1

RECURSIVE LexLeq(_, _)
LexLeq(a, b) ==
    IF a = << >> THEN TRUE
    ELSE IF DigitVal(a[1]) # DigitVal(b[1]) THEN DigitVal(a[1]) < DigitVal(b[1])
    ELSE LexLeq(Tail(a), Tail(b))

RECURSIVE DecimalValue(_)
DecimalValue(d) ==
    IF d = << >> THEN 0
    ELSE 10 * DecimalValue(SubSeq(d, 1, Len(d) - 1)) + DigitVal(d[Len(d)])

Atoi(d) ==
    LET n == StripZeros(d)
    IN IF d = << >> THEN [val |-> 0, err |-> TRUE]
       ELSE IF Len(n) > Len(MaxInt64Digits)
               \/ (Len(n) = Len(MaxInt64Digits) /\ ~LexLeq(n, MaxInt64Digits))
            THEN [val |-> 0, err |-> TRUE]
       ELSE [val |-> DecimalValue(n), err |-> FALSE]

\* ------------------------------------------------------------------------
\* TorEventState
\* ------------------------------------------------------------------------
NewTorEventState(target) ==
    [ConnIds |-> {}, State |-> BridgeStatePending, Reason |-> "",
     Fingerprint |-> EmptyStr, Target |-> target]

\* The handlers return the parser after the call and whether the call
\* panicked (a slice bound out of range); a panic leaves the parser as it
\* was when the panic was raised.

\* orConnLaunched that keeps the ID of the latest LAUNCHED only
orConnLaunched_Replace(t, target, eventType, i) ==
    IF eventType # LAUNCHED THEN [t |-> t, panic |-> FALSE]
    ELSE LET matchLen == calcMatchLength(target, t.Target)
         IN IF matchLen > Len(t.Target) THEN [t |-> t, panic |-> TRUE]
            ELSE IF target = SubSeq(t.Target, 1, matchLen)
                 THEN [t |-> [t EXCEPT !.ConnIds = {i}], panic |-> FALSE]
            ELSE [t |-> t, panic |-> FALSE]

\* The LAUNCHED block of processOrConnLine: t.Target[:matchLen] panics when
\* matchLen exceeds len(t.Target).
orConnLaunched(t, target, eventType, i) ==
    IF eventType # LAUNCHED THEN [t |-> t, panic |-> FALSE]
    ELSE LET matchLen == calcMatchLength(target, t.Target)
         IN IF matchLen > Len(t.Target) THEN [t |-> t, panic |-> TRUE]
            ELSE IF target = SubSeq(t.Target, 1, matchLen)
                 THEN [t |-> [t EXCEPT !.ConnIds = @ \cup {i}], panic |-> FALSE]
            ELSE [t |-> t, panic |-> FALSE]

\* orConnSwitch without the return for an ID that is not in ConnIds
orConnSwitch_NoIdCheck(t, eventType, i, line) ==
    IF eventType = FAILED
    THEN [t EXCEPT !.State = BridgeStateFailure,
                   !.Reason = getFailureDesc(line).val]
    ELSE IF eventType = CONNECTED
         THEN LET fp == extractFingerprint(line)
              IN IF fp.err THEN t ELSE [t EXCEPT !.Fingerprint = fp.val]
    ELSE t

\* orConnSwitch with CLOSED handled by the FAILED case
orConnSwitch_ClosedFails(t, eventType, i, line) ==
    IF i \notin t.ConnIds THEN t
    ELSE IF eventType \in {FAILED, CLOSED}
         THEN [t EXCEPT !.State = BridgeStateFailure,
                        !.Reason = getFailureDesc(line).val]
    ELSE IF eventType = CONNECTED
         THEN LET fp == extractFingerprint(line)
              IN IF fp.err THEN t ELSE [t EXCEPT !.Fingerprint = fp.val]
    ELSE t

\* The rest of processOrConnLine: leave unless the ID is ours, then switch
\* on the event type.
orConnSwitch(t, eventType, i, line) ==
    IF i \notin t.ConnIds THEN t
    ELSE IF eventType = FAILED
         THEN [t EXCEPT !.State = BridgeStateFailure,
                        !.Reason = getFailureDesc(line).val]
    ELSE IF eventType = CONNECTED
         THEN LET fp == extractFingerprint(line)
              IN IF fp.err THEN t ELSE [t EXCEPT !.Fingerprint = fp.val]
    ELSE t

processOrConnLine(t, line) ==
    LET matches == OrConnFields(line)
    IN IF Len(matches) # 4 THEN [t |-> t, panic |-> FALSE]
       ELSE
         LET target    == matches[2]
             eventType == matches[3]
             conv      == Atoi(matches[4])
         IN IF conv.err THEN [t |-> t, panic |-> FALSE]
            ELSE LET launched == orConnLaunched(t, target, eventType, conv.val)
                 IN IF launched.panic THEN launched
                    ELSE [t |-> orConnSwitch(launched.t, eventType, conv.val, line),
                          panic |-> FALSE]

\* processNewDescLine without the comparison with the recorded fingerprint
processNewDescLine_NoCompare(t, line) ==
    LET fp == extractFingerprint(line)
    IN IF fp.err THEN [t |-> t, panic |-> FALSE]
       ELSE [t |-> [t EXCEPT !.State = BridgeStateSuccess], panic |-> FALSE]

\* processNewDescLine that compares with the identity instead of the
\* fingerprint recorded from CONNECTED
processNewDescLine_TargetOnly(t, line) ==
    LET fp == extractFingerprint(line)
    IN IF fp.err THEN [t |-> t, panic |-> FALSE]
       ELSE IF Dollar \o fp.val = t.Target
            THEN [t |-> [t EXCEPT !.State = BridgeStateSuccess], panic |-> FALSE]
       ELSE [t |-> t, panic |-> FALSE]

processNewDescLine(t, line) ==
    LET fp == extractFingerprint(line)
    IN IF fp.err THEN [t |-> t, panic |-> FALSE]
       ELSE IF fp.val = t.Fingerprint
            THEN [t |-> [t EXCEPT !.State = BridgeStateSuccess], panic |-> FALSE]
       ELSE [t |-> t, panic |-> FALSE]

Feed(t, line) ==
    IF OrConnEvent(line) THEN processOrConnLine(t, line)
    ELSE IF NewDescEvent(line) THEN processNewDescLine(t, line)
    ELSE [t |-> t, panic |-> FALSE]

\* ------------------------------------------------------------------------
\* cache: bridge lines, the addr:port regular expression, program constants
\* ------------------------------------------------------------------------
LowerChars == <<"a","b","c","d","e","f","g","h","i","j","k","l","m","n","o","p","q","r","s","t","u","v","w","x","y","z">>
AddrCharSet == Range(DigitChars) \cup Range(LowerChars) \cup {"[", "]", ".", ":"}
IsAddrChar(c) == c \in AddrCharSet

\* the attempt that loses the last character of its match
AddrPortAt_ShortMatch(s, p) ==
    LET e      == RunEnd(IsAddrChar, s, p)
        Colons == {c \in (p + 1)..(e - 1) :
                     s[c] = ":" /\ c + 1 <= Len(s) /\ IsDigit(s[c + 1])}
    IN IF Colons = {} THEN << >>
       ELSE LET c == MaxOf(Colons)
                d == Min2(RunEnd(IsDigit, s, c + 1), c + 1 + 5)
            IN SubSeq(s, p, d - 2)

\* One attempt of `[0-9a-z\[\]\.:]+:[0-9]{1,5}` at position p: << >> when it
\* fails, else the match.  The class run is greedy and the class contains
\* ":" and the digits, so the run gives characters back down to the last ":"
\* of the run that a digit follows; then up to five digits are taken.
AddrPortAt(s, p) ==
    LET e      == RunEnd(IsAddrChar, s, p)
        Colons == {c \in (p + 1)..(e - 1) :
                     s[c] = ":" /\ c + 1 <= Len(s) /\ IsDigit(s[c + 1])}
    IN IF Colons = {} THEN << >>
       ELSE LET c == MaxOf(Colons)
                d == Min2(RunEnd(IsDigit, s, c + 1), c + 1 + 5)
            IN SubSeq(s, p, d - 1)

\* AddrPortBridgeLine.Find: the leftmost match, empty if none
AddrPortBridgeLineFind(line) ==
    LET Starts == {p \in 1..Len(line) : AddrPortAt(line, p) # << >>}
    IN IF Starts = {} THEN EmptyStr ELSE AddrPortAt(line, MinOf(Starts))

\* A bridge line is described by the text before its addr:port, the
\* addr:port (empty: the line has none) and the text after it.
BridgeLine(before, addrPort, after) ==
    [before |-> before, addrPort |-> addrPort, after |-> after]

LineText(b) == b.before \o b.addrPort \o b.after

Obfs4Sp  == <<"o","b","f","s","4"," ">>
CertArg  == <<" ","c","e","r","t","=","f","o","o">>
BogusTxt == <<"b","o","g","u","s","-","b","r","i","d","g","e","-","l","i","n","e">>

BridgeLines ==
    { BridgeLine(EmptyStr, AP1, EmptyStr),
      BridgeLine(Obfs4Sp, AP1, CertArg),
      BridgeLine(EmptyStr, AP2, EmptyStr),
      BridgeLine(BogusTxt, EmptyStr, EmptyStr) }

\* Lines given to bridgeLineToAddrPort alone: an optional transport, a host,
\* a port (or none) and an optional argument.
Host4   == <<"1",".","2",".","3",".","4">>
Host6   == <<"[",":",":","1","]">>
HostFoo == <<"f","o","o">>

LexPorts ==
    { EmptyStr, <<":","0">>, <<":","1">>, <<":","2","2">>,
      <<":","6","5","5","3","5">>, <<":","6","5","5","3","6">>,
      <<":","1","2","3","4","5","6">> }

LexLines ==
    { BridgeLine(bf, h \o pt, af) :
        bf \in {EmptyStr, Obfs4Sp}, h \in {Host4, Host6, HostFoo},
        pt \in LexPorts, af \in {EmptyStr, CertArg} }

\* the lines of the model and what the expression finds in them
LineTexts == {LineText(b) : b \in BridgeLines \cup LexLines}

AddrPortTable ==
    [ln \in LineTexts \cup {AddrPortBridgeLineFind(t) : t \in LineTexts}
        |-> AddrPortBridgeLineFind(ln)]

AddrPortBridgeLine(line) == AddrPortTable[line]

\* the extraction that takes the whole bridge line for the key
bridgeLineToAddrPort_WholeLine(bridgeLine) ==
    [val |-> bridgeLine, err |-> (AddrPortBridgeLine(bridgeLine) = EmptyStr)]

\* the extraction that reports no error
bridgeLineToAddrPort_NoErr(bridgeLine) ==
    [val |-> AddrPortBridgeLine(bridgeLine), err |-> FALSE]

bridgeLineToAddrPort(bridgeLine) ==
    LET result == AddrPortBridgeLine(bridgeLine)
    IN [val |-> result, err |-> (result = EmptyStr)]

\* The identifier stored with an entry; it is computed for every line.
getHashedBridgeIdentifier(bridgeLine) == [val |-> 0, err |-> FALSE]

\* entryTimeout, in the time unit of the clock
EntryTimeout == 1

\* the strings of the test results handed to AddEntry; "" is a nil error
ErrorStrings == {"", "bridge is on fire"}

\* goroutines calling the cache
Procs == {"h1", "h2"}

\* bounds of the model: the last clock value, the largest CacheHits and the
\* longest batch of bridge lines
MaxTime == 2
MaxHits == 2
MaxBatch == 2

\* A pointer to a cache entry, as IsCached returns it, is nil or names the
\* object it points to: while the map still holds the object (live) that is
\* the entry under the key, and once the map has dropped the object it is
\* the value the object had then, which nothing changes any more.
NoEntry == [HashedIdent |-> 0, Error |-> "", Time |-> 0, CacheHits |-> 0]

Nil == [key |-> EmptyStr, live |-> FALSE, val |-> NoEntry]

PointerTo(k) == [key |-> k, live |-> TRUE, val |-> NoEntry]

\* the pointers after the map has dropped the objects under the keys K
Detach(r, E, K) ==
    [p \in DOMAIN r |-> IF r[p].live /\ r[p].key \in K
                        THEN [key |-> r[p].key, live |-> FALSE, val |-> E[r[p].key]]
                        ELSE r[p]]

\* the entry a pointer points to
Deref(r, E) == IF r.live THEN E[r.key] ELSE r.val

\* NewTestResult(): no verdicts and no error; the duration of the test
\* (Time) is left out
NewTestResult == [Bridges |-> << >>, Error |-> ""]

\* the handler between two calls of testBridgeLines; seen and sent are
\* history: what each IsCached returned (nil, or the entry) and the list
\* that was passed to the dispatcher
NoBatch ==
    [phase |-> "idle", bridgeLines |-> << >>, i |-> 0, remainingBridgeLines |-> << >>,
     result |-> NewTestResult, partialResult |-> NewTestResult, todo |-> {},
     seen |-> << >>, called |-> FALSE, sent |-> << >>, tested |-> << >>]

\* the cache file: there is none, it is empty (created and not yet written)
\* or it holds an encoded cache
NoFile    == [state |-> "absent", data |-> << >>]
EmptyFile == [state |-> "empty", data |-> << >>]

\* the cache file of the service, and a path that cannot be opened
CacheFile == "bridgestrap-cache.bin"
BogusFile == "/f/o/o/b/a/r"
Files     == {CacheFile, BogusFile}

\* gob sends the exported fields of a CacheEntry that are not zero
EncodeEntry_DropError(e) ==
    [f \in {"Time"} \cup (IF e.HashedIdent # 0 THEN {"HashedIdent"} ELSE {})
                     \cup (IF e.CacheHits # 0 THEN {"CacheHits"} ELSE {}) |-> e[f]]

EncodeEntry(e) ==
    [f \in {"Time"} \cup (IF e.HashedIdent # 0 THEN {"HashedIdent"} ELSE {})
                     \cup (IF e.Error # "" THEN {"Error"} ELSE {})
                     \cup (IF e.CacheHits # 0 THEN {"CacheHits"} ELSE {}) |-> e[f]]

\* and a field that was not sent decodes to its zero value
DecodeEntry(d) ==
    [HashedIdent |-> IF "HashedIdent" \in DOMAIN d THEN d["HashedIdent"] ELSE 0,
     Error       |-> IF "Error" \in DOMAIN d THEN d["Error"] ELSE "",
     Time        |-> d["Time"],
     CacheHits   |-> IF "CacheHits" \in DOMAIN d THEN d["CacheHits"] ELSE 0]

\* enc.Encode(*tc): Entries is the only exported field of TestCache
GobEncode(E) == [state |-> "encoded", data |-> [k \in DOMAIN E |-> EncodeEntry(E[k])]]

\* dec.Decode(tc) into the map E: the keys of the file are set to newly
\* allocated entries, the other keys of E stay
GobDecode(file, E) ==
    [k \in DOMAIN E \cup DOMAIN file.data |->
        IF k \in DOMAIN file.data THEN DecodeEntry(file.data[k]) ELSE E[k]]

NoLocals == [op |-> "none", line |-> EmptyStr, errorStr |-> "", lastTested |-> 0, now |-> 0,
             cacheFile |-> "", err |-> FALSE, afterWrite |-> FALSE,
             frac |-> [num |-> 0, den |-> 1]]

\* the expiry test with the entry at exactly now - entryTimeout expired too
Expired_Inclusive(entry, now) == entry.Time <= now - EntryTimeout

\* entry.Time.Before(now.Add(-entryTimeout))
Expired(entry, now) == entry.Time < now - EntryTimeout

\* ------------------------------------------------------------------------
\* State
\* ------------------------------------------------------------------------
VARIABLES
    parser,     \* the TorEventState of the bridge under test
    panicked,   \* a call of Feed panicked
    ev,         \* the event whose line was fed last (NoEvent before the first)
    old,        \* the parser before that line was fed
    scn,        \* progress of the run LAUNCHED, CONNECTED, NEWDESC (history)
    fed,        \* what the events fed so far said, by their fields (history)
    Entries,    \* TestCache.Entries: addr:port -> the CacheEntry it points to
    l,          \* TestCache.l: the goroutine holding the mutex, or "none"
    clock,      \* time.Now()
    pc,         \* position of each goroutine in the cache operation it runs
    locals,     \* arguments and local variables of that operation
    ret,        \* pointer returned by the goroutine's last IsCached
    fracMetric, \* metrics.FracFunctional
    atCall,     \* the entries when the goroutine called its operation (history)
    lastOp,     \* the operation the goroutine completed last (history)
    disk,       \* the content of the cache file
    touched,    \* addr:ports written by others since the goroutine's call (history)
    hs,         \* the request handler inside testBridgeLines
    lex,        \* a bridge line and what bridgeLineToAddrPort made of it
    dial,       \* makeControlConnection: its loop and the calls it made
    mainp,      \* main: where it is and the calls it made after the signal
    disp,       \* the request queue, its dispatcher and the tests it started
    test,       \* bootstrapTorOverBridgeWrapped: the test of one bridge and its tor process
    http,       \* BridgeState: the request it handles and what it wrote to the response
    bus         \* the event queue between the reader and the batch dispatcher

evVars    == <<parser, panicked, ev, old, scn, fed>>
cacheVars == <<Entries, l, clock, pc, locals, ret, fracMetric, atCall, lastOp, disk, touched, hs>>
svcVars   == <<lex, dial, mainp, disp, test, http, bus>>
vars      == <<evVars, cacheVars, svcVars>>

\* the parts of the service that a specification leaves out are at rest
NoLex == [pc |-> "none"]
NoDial == [pc |-> "none"]
NoMainp == [pc |-> "none"]
NoDisp == [pc |-> "none"]
NoTest == [pc |-> "none"]
NoHttp == [pc |-> "none"]
NoBus == [pc |-> "none"]

SvcIdle ==
    /\ lex = NoLex
    /\ dial = NoDial
    /\ mainp = NoMainp
    /\ disp = NoDisp
    /\ test = NoTest
    /\ http = NoHttp
    /\ bus = NoBus

\* the service but one of its parts: the variables, and their rest
butLex == <<evVars, cacheVars, dial, mainp, disp, test, http, bus>>
restLex == <<dial, mainp, disp, test, http, bus>>
ButLexIdle == dial = NoDial /\ mainp = NoMainp /\ disp = NoDisp /\ test = NoTest /\ http = NoHttp /\ bus = NoBus

butDial == <<evVars, cacheVars, lex, mainp, disp, test, http, bus>>
restDial == <<lex, mainp, disp, test, http, bus>>
ButDialIdle == lex = NoLex /\ mainp = NoMainp /\ disp = NoDisp /\ test = NoTest /\ http = NoHttp /\ bus = NoBus

butMainp == <<evVars, cacheVars, lex, dial, disp, test, http, bus>>
restMainp == <<lex, dial, disp, test, http, bus>>
ButMainpIdle == lex = NoLex /\ dial = NoDial /\ disp = NoDisp /\ test = NoTest /\ http = NoHttp /\ bus = NoBus

butDisp == <<evVars, cacheVars, lex, dial, mainp, test, http, bus>>
restDisp == <<lex, dial, mainp, test, http, bus>>
ButDispIdle == lex = NoLex /\ dial = NoDial /\ mainp = NoMainp /\ test = NoTest /\ http = NoHttp /\ bus = NoBus

butTest == <<evVars, cacheVars, lex, dial, mainp, disp, http, bus>>
restTest == <<lex, dial, mainp, disp, http, bus>>
ButTestIdle == lex = NoLex /\ dial = NoDial /\ mainp = NoMainp /\ disp = NoDisp /\ http = NoHttp /\ bus = NoBus

butHttp == <<evVars, cacheVars, lex, dial, mainp, disp, test, bus>>
restHttp == <<lex, dial, mainp, disp, test, bus>>
ButHttpIdle == lex = NoLex /\ dial = NoDial /\ mainp = NoMainp /\ disp = NoDisp /\ test = NoTest /\ bus = NoBus

butBus == <<evVars, cacheVars, lex, dial, mainp, disp, test, http>>
restBus == <<lex, dial, mainp, disp, test, http>>
ButBusIdle == lex = NoLex /\ dial = NoDial /\ mainp = NoMainp /\ disp = NoDisp /\ test = NoTest /\ http = NoHttp

\* NewTestCache(), no goroutine in the cache
CacheInit ==
    /\ Entries = << >>
    /\ l = "none"
    /\ clock = 0
    /\ pc = [p \in Procs |-> "idle"]
    /\ locals = [p \in Procs |-> NoLocals]
    /\ ret = [p \in Procs |-> Nil]
    /\ fracMetric = [num |-> 0, den |-> 1]
    /\ atCall = [p \in Procs |-> << >>]
    /\ lastOp = [p \in Procs |-> "none"]
    /\ disk = NoFile
    /\ touched = [p \in Procs |-> {}]
    /\ hs = NoBatch

\* the goroutines other than p that are in or after a call note the keys K
Touch(p, K) ==
    [q \in Procs |-> IF q # p /\ locals[q].op # "none" THEN touched[q] \cup K
                     ELSE touched[q]]

\* What the events say, read off their fields (not off the rendered text).
IsVerb(e, verb) == e.kind = "ORCONN" /\ e.verb = verb /\ e.hasId /\ e.id \in Ids
IdNum(e)        == DecimalValue(e.id)
CarriedFp(e)    == IF \E f \in {F1, F2} : e.target \in {Dollar \o f, Dollar \o f \o Nick}
                   THEN CHOOSE f \in {F1, F2} : e.target \in {Dollar \o f, Dollar \o f \o Nick}
                   ELSE EmptyStr

\* The LAUNCHED target tg is the identity T cut to the length that both have
\* (41 at most): the comparison that decides whether the ID is remembered.
MatchesTarget(tg, T) ==
    tg = SubSeq(T, 1, Min2(Min2(Len(tg), Len(T)), BridgeFingerprintLen + 1))

NoScenario == [stage |-> 0, id |-> EmptyStr, fp |-> EmptyStr]

\* The position reached in a run "LAUNCHED with target T and ID i, CONNECTED
\* with ID i carrying F, NEWDESC carrying F" begun on a Pending parser, after
\* the event e is fed to the parser t.
ScenarioAfter(sc, t, e) ==
    IF sc.stage = 1 /\ IsVerb(e, CONNECTED) /\ e.id = sc.id /\ CarriedFp(e) # EmptyStr
    THEN [stage |-> 2, id |-> sc.id, fp |-> CarriedFp(e)]
    ELSE IF sc.stage = 2 /\ e.kind = "NEWDESC" /\ CarriedFp(e) = sc.fp
    THEN [stage |-> 3, id |-> sc.id, fp |-> sc.fp]
    ELSE IF IsVerb(e, LAUNCHED) /\ e.target = t.Target /\ t.State = BridgeStatePending
    THEN [stage |-> 1, id |-> e.id, fp |-> EmptyStr]
    ELSE NoScenario

NothingFed == [launched |-> {}, connected |-> {}, fps |-> {}, described |-> {}]

\* What has been fed to a parser of identity T once the event e is fed too:
\* the IDs of the LAUNCHED events that matched T, the IDs among them that a
\* later CONNECTED named, the fingerprints those CONNECTED events carried,
\* and the fingerprints among them that a later NEWDESC carried.
FedAfter(h, T, e) ==
    IF IsVerb(e, LAUNCHED) /\ MatchesTarget(e.target, T)
    THEN [h EXCEPT !.launched = @ \cup {IdNum(e)}]
    ELSE IF IsVerb(e, CONNECTED) /\ IdNum(e) \in h.launched
    THEN [h EXCEPT !.connected = @ \cup {IdNum(e)},
                   !.fps = IF CarriedFp(e) = EmptyStr THEN @ ELSE @ \cup {CarriedFp(e)}]
    ELSE IF e.kind = "NEWDESC" /\ CarriedFp(e) \in h.fps
    THEN [h EXCEPT !.described = @ \cup {CarriedFp(e)}]
    ELSE h

ParserInit ==
    /\ parser \in {NewTorEventState(T) : T \in Identities}
    /\ panicked = FALSE
    /\ ev = NoEvent
    /\ old = parser
    /\ scn = NoScenario
    /\ fed = NothingFed

\* ------------------------------------------------------------------------
\* The event parser fed with lines
\* ------------------------------------------------------------------------
EventInit == ParserInit /\ CacheInit /\ SvcIdle

\* t.Feed(line) for the line of event e
FeedLine(e) ==
    LET r == Feed(parser, Render(e))
    IN /\ ~panicked
       /\ parser' = r.t
       /\ panicked' = r.panic
       /\ ev' = e
       /\ old' = parser
       /\ UNCHANGED <<cacheVars, svcVars>>

\* Feed, followed through the run LAUNCHED, CONNECTED, NEWDESC
DoFeed(e) ==
    /\ FeedLine(e)
    /\ scn' = ScenarioAfter(scn, parser, e)
    /\ fed' = fed

EventNext == \E e \in Events : DoFeed(e)

EventSpec == EventInit /\ [][EventNext]_vars

\* The events of two connections to the bridge under test and of a
\* connection to another bridge, with the descriptors that may follow.
OrderEvents ==
    {OrConnEv(tg, LAUNCHED, EmptyStr, TRUE, id) :
        tg \in {AP1, AP2, Dollar \o F1, Dollar \o F1 \o Nick, Dollar \o F2}, id \in Ids}
    \cup {OrConnEv(tg, CONNECTED, EmptyStr, TRUE, id) :
        tg \in {Dollar \o F1 \o Nick, Dollar \o F2, AP1}, id \in Ids}
    \cup {OrConnEv(AP1, FAILED, DONE, TRUE, id) : id \in Ids}
    \cup {OrConnEv(Dollar \o F1 \o Nick, CLOSED, DONE, TRUE, id) : id \in Ids}
    \cup {NewDescEv(Dollar \o F1), NewDescEv(Dollar \o F2 \o Nick),
          OrConnEv(AP1, LAUNCHED, EmptyStr, TRUE, TooBigDigits)}

\* Feed, with a note of what the events fed so far said
NoteFeed(e) ==
    /\ FeedLine(e)
    /\ scn' = scn
    /\ fed' = FedAfter(fed, parser.Target, e)

OrderNext == \E e \in OrderEvents : NoteFeed(e)

OrderSpec == EventInit /\ [][OrderNext]_vars

\* ------------------------------------------------------------------------
\* The cache called by goroutines
\* ------------------------------------------------------------------------
\* time passes
Tick ==
    /\ clock < MaxTime
    /\ clock' = clock + 1
    /\ UNCHANGED <<Entries, l, pc, locals, ret, fracMetric, atCall, lastOp, disk, touched>>
    /\ UNCHANGED <<evVars, hs, svcVars>>

\* tc.l.Lock(): the goroutine waits until the mutex is free
LockTarget == [ic_lock1 |-> "ic_prune", ic_lock2 |-> "ic_lookup",
               ae_lock |-> "ae_insert", ff_lock |-> "ff_count",
               wd_lock |-> "wd_encode", rd_lock |-> "rd_decode",
               v1_lock |-> "v1_collect"]

\* a lock that is taken without waiting
Lock_NoWait(p) ==
    /\ pc[p] \in DOMAIN LockTarget
    /\ l' = p
    /\ pc' = [pc EXCEPT ![p] = LockTarget[pc[p]]]
    /\ UNCHANGED <<Entries, clock, locals, ret, fracMetric, atCall, lastOp, disk, touched>>
    /\ UNCHANGED <<evVars, hs, svcVars>>

Lock(p) ==
    /\ pc[p] \in DOMAIN LockTarget
    /\ l = "none"
    /\ l' = p
    /\ pc' = [pc EXCEPT ![p] = LockTarget[pc[p]]]
    /\ UNCHANGED <<Entries, clock, locals, ret, fracMetric, atCall, lastOp, disk, touched>>
    /\ UNCHANGED <<evVars, hs, svcVars>>

\* IsCached(bridgeLine): now := time.Now().UTC()
IsCachedCall(p, b) ==
    /\ pc[p] = "idle"
    /\ \A k \in DOMAIN Entries : Entries[k].CacheHits < MaxHits
    /\ pc' = [pc EXCEPT ![p] = "ic_lock1"]
    /\ locals' = [locals EXCEPT ![p] = [NoLocals EXCEPT !.op = "IsCached",
                                            !.line = LineText(b), !.now = clock]]
    /\ ret' = [ret EXCEPT ![p] = Nil]
    /\ atCall' = [atCall EXCEPT ![p] = Entries]
    /\ touched' = [touched EXCEPT ![p] = {}]
    /\ UNCHANGED <<Entries, l, clock, fracMetric, lastOp, disk>>
    /\ UNCHANGED <<evVars, hs, svcVars>>

\* IsCached: the first critical section deletes the expired entries; then
\* the addr:port is extracted, and nil is returned if there is none
IsCachedPrune(p) ==
    /\ pc[p] = "ic_prune"
    /\ l = p
    /\ LET kept == {k \in DOMAIN Entries : ~Expired(Entries[k], locals[p].now)}
       IN /\ Entries' = [k \in kept |-> Entries[k]]
          /\ ret' = Detach(ret, Entries, DOMAIN Entries \ kept)
    /\ l' = "none"
    /\ IF bridgeLineToAddrPort(locals[p].line).err
       THEN /\ pc' = [pc EXCEPT ![p] = "idle"]
            /\ lastOp' = [lastOp EXCEPT ![p] = "IsCached"]
       ELSE /\ pc' = [pc EXCEPT ![p] = "ic_lock2"]
            /\ UNCHANGED lastOp
    /\ UNCHANGED <<clock, locals, fracMetric, atCall, disk, touched>>
    /\ UNCHANGED <<evVars, hs, svcVars>>

\* the second critical section counting the hit on top of the CacheHits that
\* the entry had when IsCached was called
IsCachedLookup_StaleHits(p) ==
    /\ pc[p] = "ic_lookup"
    /\ l = p
    /\ LET addrPort == bridgeLineToAddrPort(locals[p].line).val
           before == IF addrPort \in DOMAIN atCall[p]
                     THEN atCall[p][addrPort].CacheHits ELSE 0
       IN IF addrPort \in DOMAIN Entries
          THEN /\ Entries' = [Entries EXCEPT ![addrPort].CacheHits = before + 1]
               /\ ret' = [ret EXCEPT ![p] = PointerTo(addrPort)]
          ELSE /\ ret' = [ret EXCEPT ![p] = Nil]
               /\ UNCHANGED Entries
    /\ l' = "none"
    /\ pc' = [pc EXCEPT ![p] = "idle"]
    /\ lastOp' = [lastOp EXCEPT ![p] = "IsCached"]
    /\ UNCHANGED <<clock, locals, fracMetric, atCall, disk, touched>>
    /\ UNCHANGED <<evVars, hs, svcVars>>

\* IsCached: the second critical section looks the addr:port up, counts the
\* hit and returns the pointer found in the map
IsCachedLookup(p) ==
    /\ pc[p] = "ic_lookup"
    /\ l = p
    /\ LET addrPort == bridgeLineToAddrPort(locals[p].line).val
       IN IF addrPort \in DOMAIN Entries
          THEN /\ Entries' = [Entries EXCEPT ![addrPort].CacheHits = @ + 1]
               /\ ret' = [ret EXCEPT ![p] = PointerTo(addrPort)]
          ELSE /\ ret' = [ret EXCEPT ![p] = Nil]
               /\ UNCHANGED Entries
    /\ l' = "none"
    /\ pc' = [pc EXCEPT ![p] = "idle"]
    /\ lastOp' = [lastOp EXCEPT ![p] = "IsCached"]
    /\ UNCHANGED <<clock, locals, fracMetric, atCall, disk, touched>>
    /\ UNCHANGED <<evVars, hs, svcVars>>

\* AddEntry(bridgeLine, result, lastTested) up to its critical section: it
\* returns at once when the line has no addr:port or no identifier
AddEntryCall(p, b, errorStr, lastTested) ==
    /\ pc[p] = "idle"
    /\ ret' = [ret EXCEPT ![p] = Nil]
    /\ atCall' = [atCall EXCEPT ![p] = IF bridgeLineToAddrPort(LineText(b)).err
                                        THEN Entries ELSE << >>]
    /\ touched' = [touched EXCEPT ![p] = {}]
    /\ locals' = [locals EXCEPT ![p] = [NoLocals EXCEPT !.op = "AddEntry",
                      !.line = LineText(b), !.errorStr = errorStr,
                      !.lastTested = lastTested]]
    /\ IF bridgeLineToAddrPort(LineText(b)).err \/ getHashedBridgeIdentifier(LineText(b)).err
       THEN /\ lastOp' = [lastOp EXCEPT ![p] = "AddEntry"]
            /\ UNCHANGED pc
       ELSE /\ pc' = [pc EXCEPT ![p] = "ae_lock"]
            /\ UNCHANGED lastOp
    /\ UNCHANGED <<Entries, l, clock, fracMetric, disk>>
    /\ UNCHANGED <<evVars, hs, svcVars>>

\* the critical section keeping the entry that is already there
AddEntryInsert_KeepOld(p) ==
    /\ pc[p] = "ae_insert"
    /\ l = p
    /\ LET addrPort == bridgeLineToAddrPort(locals[p].line).val
           entry == [HashedIdent |-> getHashedBridgeIdentifier(locals[p].line).val,
                     Error |-> locals[p].errorStr,
                     Time |-> locals[p].lastTested,
                     CacheHits |-> 0]
       IN /\ Entries' = [k \in DOMAIN Entries \cup {addrPort} |->
                            IF k \in DOMAIN Entries THEN Entries[k] ELSE entry]
          /\ UNCHANGED ret
          /\ touched' = Touch(p, {addrPort})
    /\ l' = "none"
    /\ pc' = [pc EXCEPT ![p] = "ff_lock"]
    /\ UNCHANGED <<clock, locals, fracMetric, atCall, lastOp, disk>>
    /\ UNCHANGED <<evVars, hs, svcVars>>

\* AddEntry: the critical section stores a new entry under the addr:port
AddEntryInsert(p) ==
    /\ pc[p] = "ae_insert"
    /\ l = p
    /\ LET addrPort == bridgeLineToAddrPort(locals[p].line).val
           entry == [HashedIdent |-> getHashedBridgeIdentifier(locals[p].line).val,
                     Error |-> locals[p].errorStr,
                     Time |-> locals[p].lastTested,
                     CacheHits |-> 0]
       IN /\ Entries' = [k \in DOMAIN Entries \cup {addrPort} |->
                            IF k = addrPort THEN entry ELSE Entries[k]]
          /\ ret' = Detach(ret, Entries, DOMAIN Entries \cap {addrPort})
          /\ touched' = Touch(p, {addrPort})
    /\ l' = "none"
    /\ pc' = [pc EXCEPT ![p] = "ff_lock"]
    /\ UNCHANGED <<clock, locals, fracMetric, atCall, lastOp, disk>>
    /\ UNCHANGED <<evVars, hs, svcVars>>

\* the fraction of the entries with an Error
FracFunctional_CountErrors ==
    IF DOMAIN Entries = {} THEN [num |-> 0, den |-> 1]
    ELSE [num |-> Cardinality({k \in DOMAIN Entries : Entries[k].Error # ""}),
          den |-> Cardinality(DOMAIN Entries)]

\* FracFunctional(): the fraction of the entries with an empty Error, as
\* numerator and denominator; 0 when there is no entry
FracFunctional ==
    IF DOMAIN Entries = {} THEN [num |-> 0, den |-> 1]
    ELSE [num |-> Cardinality({k \in DOMAIN Entries : Entries[k].Error = ""}),
          den |-> Cardinality(DOMAIN Entries)]

\* AddEntry: metrics.FracFunctional.Set(tc.FracFunctional()), and return
AddEntryFrac(p) ==
    /\ pc[p] = "ff_count"
    /\ locals[p].op = "AddEntry"
    /\ l = p
    /\ fracMetric' = FracFunctional
    /\ l' = "none"
    /\ pc' = [pc EXCEPT ![p] = "idle"]
    /\ lastOp' = [lastOp EXCEPT ![p] = "AddEntry"]
    /\ UNCHANGED <<Entries, clock, locals, ret, atCall, disk, touched>>
    /\ UNCHANGED <<evVars, hs, svcVars>>

\* WriteToDisk that returns nil when os.Create fails
WriteToDiskCall_NoError(p, cacheFile) ==
    /\ pc[p] = "idle"
    /\ ret' = [ret EXCEPT ![p] = Nil]
    /\ atCall' = [atCall EXCEPT ![p] = IF cacheFile = CacheFile THEN Entries ELSE << >>]
    /\ touched' = [touched EXCEPT ![p] = {}]
    /\ locals' = [locals EXCEPT ![p] = [NoLocals EXCEPT !.op = "WriteToDisk",
                      !.cacheFile = cacheFile, !.err = FALSE]]
    /\ IF cacheFile # CacheFile
       THEN /\ lastOp' = [lastOp EXCEPT ![p] = "WriteToDisk"]
            /\ UNCHANGED <<pc, disk>>
       ELSE /\ pc' = [pc EXCEPT ![p] = "wd_lock"]
            /\ disk' = EmptyFile
            /\ UNCHANGED lastOp
    /\ UNCHANGED <<Entries, l, clock, fracMetric>>
    /\ UNCHANGED <<evVars, hs, svcVars>>

\* WriteToDisk(cacheFile): os.Create fails, or leaves an empty file
WriteToDiskCall(p, cacheFile) ==
    /\ pc[p] = "idle"
    /\ ret' = [ret EXCEPT ![p] = Nil]
    /\ atCall' = [atCall EXCEPT ![p] = IF cacheFile = CacheFile THEN Entries ELSE << >>]
    /\ touched' = [touched EXCEPT ![p] = {}]
    /\ locals' = [locals EXCEPT ![p] = [NoLocals EXCEPT !.op = "WriteToDisk",
                      !.cacheFile = cacheFile, !.err = (cacheFile # CacheFile)]]
    /\ IF cacheFile # CacheFile
       THEN /\ lastOp' = [lastOp EXCEPT ![p] = "WriteToDisk"]
            /\ UNCHANGED <<pc, disk>>
       ELSE /\ pc' = [pc EXCEPT ![p] = "wd_lock"]
            /\ disk' = EmptyFile
            /\ UNCHANGED lastOp
    /\ UNCHANGED <<Entries, l, clock, fracMetric>>
    /\ UNCHANGED <<evVars, hs, svcVars>>

\* WriteToDisk: the cache is encoded to the file under the lock
WriteToDiskEncode(p) ==
    /\ pc[p] = "wd_encode"
    /\ l = p
    /\ disk' = GobEncode(Entries)
    /\ l' = "none"
    /\ pc' = [pc EXCEPT ![p] = "idle"]
    /\ lastOp' = [lastOp EXCEPT ![p] = "WriteToDisk"]
    /\ UNCHANGED <<Entries, clock, locals, ret, fracMetric, atCall, touched>>
    /\ UNCHANGED <<evVars, hs, svcVars>>

\* ReadFromDisk(cacheFile): os.Open fails when the file cannot be opened
ReadFromDiskCall(p, cacheFile) ==
    LET failed == cacheFile # CacheFile \/ disk.state = "absent"
        after  == lastOp[p] = "WriteToDisk" /\ locals[p].op = "WriteToDisk" /\ ~locals[p].err
    IN /\ pc[p] = "idle"
       /\ ret' = [ret EXCEPT ![p] = Nil]
       /\ atCall' = [atCall EXCEPT ![p] = IF after THEN atCall[p] ELSE << >>]
       /\ touched' = [touched EXCEPT ![p] = IF after THEN touched[p] ELSE {}]
       /\ locals' = [locals EXCEPT ![p] = [NoLocals EXCEPT !.op = "ReadFromDisk",
                         !.cacheFile = cacheFile, !.err = failed, !.afterWrite = after]]
       /\ IF failed
          THEN /\ lastOp' = [lastOp EXCEPT ![p] = "ReadFromDisk"]
               /\ UNCHANGED pc
          ELSE /\ pc' = [pc EXCEPT ![p] = "rd_lock"]
               /\ UNCHANGED lastOp
       /\ UNCHANGED <<Entries, l, clock, fracMetric, disk>>
       /\ UNCHANGED <<evVars, hs, svcVars>>

\* ReadFromDisk: the file is decoded into the cache under the lock; an
\* empty file gives an error and leaves the cache as it is
ReadFromDiskDecode(p) ==
    /\ pc[p] = "rd_decode"
    /\ l = p
    /\ IF disk.state = "encoded"
       THEN /\ Entries' = GobDecode(disk, Entries)
            /\ ret' = Detach(ret, Entries, DOMAIN Entries \cap DOMAIN disk.data)
            /\ touched' = Touch(p, DOMAIN disk.data)
            /\ UNCHANGED locals
       ELSE /\ locals' = [locals EXCEPT ![p].err = TRUE]
            /\ UNCHANGED <<Entries, ret, touched>>
    /\ l' = "none"
    /\ pc' = [pc EXCEPT ![p] = "idle"]
    /\ lastOp' = [lastOp EXCEPT ![p] = "ReadFromDisk"]
    /\ UNCHANGED <<clock, fracMetric, atCall, disk>>
    /\ UNCHANGED <<evVars, hs, svcVars>>

\* AsV1Metrics()
AsV1MetricsCall(p) ==
    /\ pc[p] = "idle"
    /\ ret' = [ret EXCEPT ![p] = Nil]
    /\ atCall' = [atCall EXCEPT ![p] = << >>]
    /\ touched' = [touched EXCEPT ![p] = {}]
    /\ locals' = [locals EXCEPT ![p] = [NoLocals EXCEPT !.op = "AsV1Metrics"]]
    /\ pc' = [pc EXCEPT ![p] = "v1_lock"]
    /\ UNCHANGED <<Entries, l, clock, fracMetric, lastOp, disk>>
    /\ UNCHANGED <<evVars, hs, svcVars>>

\* AsV1Metrics: one line per entry of the map, collected under the lock
AsV1MetricsCollect(p) ==
    /\ pc[p] = "v1_collect"
    /\ l = p
    /\ l' = "none"
    /\ pc' = [pc EXCEPT ![p] = "idle"]
    /\ lastOp' = [lastOp EXCEPT ![p] = "AsV1Metrics"]
    /\ UNCHANGED <<Entries, clock, locals, ret, fracMetric, atCall, disk, touched>>
    /\ UNCHANGED <<evVars, hs, svcVars>>

\* FracFunctional() called on its own
FracFunctionalCall(p) ==
    /\ pc[p] = "idle"
    /\ ret' = [ret EXCEPT ![p] = Nil]
    /\ atCall' = [atCall EXCEPT ![p] = << >>]
    /\ touched' = [touched EXCEPT ![p] = {}]
    /\ locals' = [locals EXCEPT ![p] = [NoLocals EXCEPT !.op = "FracFunctional"]]
    /\ pc' = [pc EXCEPT ![p] = "ff_lock"]
    /\ UNCHANGED <<Entries, l, clock, fracMetric, lastOp, disk>>
    /\ UNCHANGED <<evVars, hs, svcVars>>

\* FracFunctional: the entries are counted under the lock
FracFunctionalReturn(p) ==
    /\ pc[p] = "ff_count"
    /\ locals[p].op = "FracFunctional"
    /\ l = p
    /\ locals' = [locals EXCEPT ![p].frac = FracFunctional]
    /\ l' = "none"
    /\ pc' = [pc EXCEPT ![p] = "idle"]
    /\ lastOp' = [lastOp EXCEPT ![p] = "FracFunctional"]
    /\ UNCHANGED <<Entries, clock, ret, fracMetric, atCall, disk, touched>>
    /\ UNCHANGED <<evVars, hs, svcVars>>

CacheStep(p) ==
    \/ \E b \in BridgeLines : IsCachedCall(p, b)
    \/ IsCachedPrune(p)
    \/ IsCachedLookup(p)
    \/ \E b \in BridgeLines, e \in ErrorStrings, t \in 0..clock : AddEntryCall(p, b, e, t)
    \/ AddEntryInsert(p)
    \/ AddEntryFrac(p)
    \/ Lock(p)

\* the cache with one caller at a time: each operation runs to its return
\* before the next one is called
CacheSeqInit == ParserInit /\ parser.Target = AP1 /\ CacheInit /\ SvcIdle

CacheSeqNext == Tick \/ CacheStep("h1")

CacheSeqSpec == CacheSeqInit /\ [][CacheSeqNext]_vars

\* the cache called by the goroutines of two concurrent requests for the
\* same bridge, written as two different bridge lines; a result is added
\* with the time of the call
ConcLine == [h1 |-> BridgeLine(EmptyStr, AP1, EmptyStr),
             h2 |-> BridgeLine(Obfs4Sp, AP1, CertArg)]

ConcStep(p) ==
    \/ IsCachedCall(p, ConcLine[p])
    \/ IsCachedPrune(p)
    \/ IsCachedLookup(p)
    \/ \E e \in ErrorStrings : AddEntryCall(p, ConcLine[p], e, clock)
    \/ AddEntryInsert(p)
    \/ AddEntryFrac(p)
    \/ Lock(p)

CacheNext == Tick \/ \E p \in Procs : ConcStep(p)

CacheSpec == CacheSeqInit /\ [][CacheNext]_vars

\* FracFunctional called on caches of up to four bridges, each functional
\* or not
AP3 == <<"3",".","3",".","3",".","3",":","3">>
AP4 == <<"4",".","4",".","4",".","4",":","4">>

FracCaches ==
    UNION {[K -> {[NoEntry EXCEPT !.Error = e] : e \in ErrorStrings}]
           : K \in SUBSET {AP1, AP2, AP3, AP4}}

FracInit ==
    /\ ParserInit /\ parser.Target = AP1
    /\ Entries \in FracCaches
    /\ l = "none"
    /\ clock = 0
    /\ pc = [p \in Procs |-> "idle"]
    /\ locals = [p \in Procs |-> NoLocals]
    /\ ret = [p \in Procs |-> Nil]
    /\ fracMetric = [num |-> 0, den |-> 1]
    /\ atCall = [p \in Procs |-> << >>]
    /\ lastOp = [p \in Procs |-> "none"]
    /\ disk = NoFile
    /\ touched = [p \in Procs |-> {}]
    /\ hs = NoBatch
    /\ SvcIdle

FracNext == FracFunctionalCall("h1") \/ Lock("h1") \/ FracFunctionalReturn("h1")

FracSpec == FracInit /\ [][FracNext]_vars

\* every operation of the cache called by two goroutines at once, on one
\* bridge and one file
Section(p) ==
    \/ IsCachedPrune(p)
    \/ IsCachedLookup(p)
    \/ AddEntryInsert(p)
    \/ AddEntryFrac(p)
    \/ FracFunctionalReturn(p)
    \/ WriteToDiskEncode(p)
    \/ ReadFromDiskDecode(p)
    \/ AsV1MetricsCollect(p)

\* the hit counters stay within MaxHits: a lookup is started only while every
\* counter in the cache and in the file leaves room for the lookups under way
HitsLeft(p) ==
    LET pending == Cardinality({q \in Procs \ {p} : pc[q] # "idle" /\ locals[q].op = "IsCached"})
    IN /\ \A k \in DOMAIN Entries : Entries[k].CacheHits + pending < MaxHits
       /\ \A k \in DOMAIN disk.data : DecodeEntry(disk.data[k]).CacheHits + pending < MaxHits

\* the second goroutine calls the six operations in a fixed cyclic order, the
\* first one in any order
LockOrder ==
    [h2 |-> <<"none", "FracFunctional", "AsV1Metrics", "ReadFromDisk", "WriteToDisk", "IsCached", "AddEntry">>]

Turn(p, op) ==
    p \in DOMAIN LockOrder =>
    \E i \in 1..7 : /\ LockOrder[p][i] = lastOp[p]
                     /\ LockOrder[p][IF i = 7 THEN 2 ELSE i + 1] = op

LockCall(p) ==
    \/ Turn(p, "IsCached") /\ HitsLeft(p) /\ IsCachedCall(p, ConcLine[p])
    \/ Turn(p, "AddEntry") /\ AddEntryCall(p, ConcLine[p], "", clock)
    \/ Turn(p, "FracFunctional") /\ FracFunctionalCall(p)
    \/ Turn(p, "WriteToDisk") /\ WriteToDiskCall(p, CacheFile)
    \/ Turn(p, "ReadFromDisk") /\ ReadFromDiskCall(p, CacheFile)
    \/ Turn(p, "AsV1Metrics") /\ AsV1MetricsCall(p)

LockNext == \E p \in Procs : LockCall(p) \/ Lock(p) \/ Section(p)

LockSpec == CacheSeqInit /\ [][LockNext]_vars

\* a goroutine inside a critical section runs on, and sync.Mutex hands the
\* lock to a goroutine that keeps waiting for it
LockFairSpec ==
    /\ LockSpec
    /\ \A p \in Procs : WF_vars(Section(p)) /\ SF_vars(Lock(p))

\* the cache and its file, one caller at a time
DiskStep(p) ==
    \/ \E b \in BridgeLines, e \in ErrorStrings : AddEntryCall(p, b, e, clock)
    \/ AddEntryInsert(p)
    \/ AddEntryFrac(p)
    \/ \E f \in Files : WriteToDiskCall(p, f)
    \/ WriteToDiskEncode(p)
    \/ \E f \in Files : ReadFromDiskCall(p, f)
    \/ ReadFromDiskDecode(p)
    \/ Lock(p)

DiskNext == Tick \/ DiskStep("h1")

DiskSpec == CacheSeqInit /\ [][DiskNext]_vars

\* ------------------------------------------------------------------------
\* testBridgeLines, run by one request handler
\* ------------------------------------------------------------------------
\* the batches of a request over the given lines: BridgeState passes
\* between one and MaxBridgesPerReq lines, BridgeStateWeb one
Batches(lines) == UNION {[1..n -> lines] : n \in 1..MaxBatch}

\* the lines of two bridges; and the lines of one bridge, without and with
\* a transport, together with a line that names no bridge
TwoBridges == {b \in BridgeLines : b.before = EmptyStr}
OneBridge  == {b \in BridgeLines : b.addrPort # AP2}

\* the verdict made from a cache entry, always functional
CachedBridgeTest_Functional(entry) ==
    [Functional |-> TRUE, LastTested |-> entry.Time, Error |-> entry.Error]

\* the verdict made from a cache entry
CachedBridgeTest(entry) ==
    [Functional |-> entry.Error = "", LastTested |-> entry.Time, Error |-> entry.Error]

\* the lines of a list, as a set of texts
TextsOf(lines) == {LineText(lines[n]) : n \in DOMAIN lines}

\* The dispatcher (torCtx.TestBridgeLines): a line whose identity cannot be
\* derived is reported as a bad line; the batch is then either aborted with
\* a batch-level error, or every other line gets a verdict, with or without
\* a batch-level error.
BadBridgeLine == "internal: bad bridge line"
BatchError    == "batch error"

DispatcherVerdicts(text, now) ==
    IF AddrPortBridgeLine(text) = EmptyStr
    THEN {[Functional |-> FALSE, LastTested |-> now, Error |-> BadBridgeLine]}
    ELSE {[Functional |-> (e = ""), LastTested |-> now, Error |-> e] : e \in ErrorStrings}

TestBridgeLines(lines, now) ==
    LET texts == TextsOf(lines)
        bad   == {t \in texts : AddrPortBridgeLine(t) = EmptyStr}
        all   == {f \in [texts -> UNION {DispatcherVerdicts(t, now) : t \in texts}] :
                     \A t \in texts : f[t] \in DispatcherVerdicts(t, now)}
    IN {[Bridges |-> f, Error |-> e] : f \in all, e \in {"", BatchError}}
       \cup {[Bridges |-> [t \in bad |-> The(DispatcherVerdicts(t, now))], Error |-> BatchError]}

\* The tests whose verdict was passed to cache.AddEntry, by the addr:port the
\* line was written with: the line tested last and its verdict (history,
\* kept from one request to the next).
TestedAfter(tested, bridgeLine, bridgeTest) ==
    LET k == (CHOOSE b \in BridgeLines : LineText(b) = bridgeLine).addrPort
    IN [a \in DOMAIN tested \cup {k} |->
           IF a = k THEN [line |-> bridgeLine, test |-> bridgeTest] ELSE tested[a]]

\* testBridgeLines(bridgeLines) is entered
testBridgeLinesCall(p, bridgeLines) ==
    /\ hs.phase \in {"idle", "done"}
    /\ pc[p] = "idle"
    /\ hs' = [NoBatch EXCEPT !.phase = "loop", !.bridgeLines = bridgeLines, !.i = 1,
                             !.tested = hs.tested]
    /\ locals' = [locals EXCEPT ![p] = NoLocals]
    /\ UNCHANGED <<Entries, l, clock, pc, ret, fracMetric, atCall, lastOp, disk, touched>>
    /\ UNCHANGED <<evVars, svcVars>>

\* the first loop calls cache.IsCached for the next line
LoopIsCached(p) ==
    /\ hs.phase = "loop"
    /\ locals[p].op = "none"
    /\ IsCachedCall(p, hs.bridgeLines[hs.i])

\* IsCached has returned: a cached line gets its verdict from the entry, any
\* other line is appended to remainingBridgeLines; after the last line the
\* handler goes on to the dispatcher, or returns when nothing remains
LoopEntry(p) ==
    /\ hs.phase = "loop"
    /\ pc[p] = "idle" /\ lastOp[p] = "IsCached" /\ locals[p].op = "IsCached"
    /\ LET bridgeLine == hs.bridgeLines[hs.i]
           entry      == Deref(ret[p], Entries)
           cached     == ret[p] # Nil
           result     == IF cached
                         THEN [hs.result EXCEPT !.Bridges =
                                  [t \in DOMAIN @ \cup {LineText(bridgeLine)} |->
                                      IF t = LineText(bridgeLine) THEN CachedBridgeTest(entry)
                                      ELSE @[t]]]
                         ELSE hs.result
           remaining  == IF cached THEN hs.remainingBridgeLines
                         ELSE Append(hs.remainingBridgeLines, bridgeLine)
           last       == hs.i = Len(hs.bridgeLines)
       IN hs' = [hs EXCEPT !.result = result,
                           !.remainingBridgeLines = remaining,
                           !.seen = Append(@, IF cached THEN [nil |-> FALSE, entry |-> entry]
                                              ELSE [nil |-> TRUE, entry |-> NoEntry]),
                           !.i = @ + 1,
                           !.phase = IF ~last THEN "loop"
                                     ELSE IF Len(remaining) > 0 THEN "dispatch" ELSE "done"]
    /\ locals' = [locals EXCEPT ![p] = NoLocals]
    /\ UNCHANGED <<Entries, l, clock, pc, ret, fracMetric, atCall, lastOp, disk, touched>>
    /\ UNCHANGED <<evVars, svcVars>>

\* partialResult := torCtx.TestBridgeLines(remainingBridgeLines);
\* result.Error = partialResult.Error
Dispatch(p) ==
    /\ hs.phase = "dispatch"
    /\ \E partialResult \in TestBridgeLines(hs.remainingBridgeLines, clock) :
          hs' = [hs EXCEPT !.partialResult = partialResult,
                           !.result.Error = partialResult.Error,
                           !.todo = DOMAIN partialResult.Bridges,
                           !.called = TRUE,
                           !.sent = hs.remainingBridgeLines,
                           !.phase = IF DOMAIN partialResult.Bridges = {} THEN "done"
                                     ELSE "range"]
    /\ UNCHANGED <<Entries, l, clock, pc, locals, ret, fracMetric, atCall, lastOp, disk, touched>>
    /\ UNCHANGED <<evVars, svcVars>>

\* the loop over partialResult.Bridges, in the order the map yields, calls
\* cache.AddEntry(bridgeLine, errors.New(bridgeTest.Error), bridgeTest.LastTested)
RangeAddEntry(p) ==
    /\ hs.phase = "range"
    /\ locals[p].op = "none"
    /\ \E b \in BridgeLines :
          /\ LineText(b) \in hs.todo
          /\ LET bridgeTest == hs.partialResult.Bridges[LineText(b)]
             IN AddEntryCall(p, b, bridgeTest.Error, bridgeTest.LastTested)

\* AddEntry has returned: result.Bridges[bridgeLine] = bridgeTest; after the
\* last verdict testBridgeLines returns
RangeStored(p) ==
    /\ hs.phase = "range"
    /\ pc[p] = "idle" /\ lastOp[p] = "AddEntry" /\ locals[p].op = "AddEntry"
    /\ LET bridgeLine == locals[p].line
           bridgeTest == hs.partialResult.Bridges[bridgeLine]
       IN hs' = [hs EXCEPT !.result.Bridges =
                               [t \in DOMAIN @ \cup {bridgeLine} |->
                                   IF t = bridgeLine THEN bridgeTest ELSE @[t]],
                           !.todo = @ \ {bridgeLine},
                           !.tested = TestedAfter(@, bridgeLine, bridgeTest),
                           !.phase = IF hs.todo = {bridgeLine} THEN "done" ELSE "range"]
    /\ locals' = [locals EXCEPT ![p] = NoLocals]
    /\ UNCHANGED <<Entries, l, clock, pc, ret, fracMetric, atCall, lastOp, disk, touched>>
    /\ UNCHANGED <<evVars, svcVars>>

HandlerStep(p, lines) ==
    \/ \E bridgeLines \in Batches(lines) : testBridgeLinesCall(p, bridgeLines)
    \/ LoopIsCached(p)
    \/ IsCachedPrune(p)
    \/ IsCachedLookup(p)
    \/ LoopEntry(p)
    \/ Dispatch(p)
    \/ RangeAddEntry(p)
    \/ AddEntryInsert(p)
    \/ AddEntryFrac(p)
    \/ RangeStored(p)
    \/ Lock(p)

HandlerNext == Tick \/ HandlerStep("h1", TwoBridges)

HandlerSpec == CacheSeqInit /\ [][HandlerNext]_vars

TransportNext == Tick \/ HandlerStep("h1", OneBridge)

TransportSpec == CacheSeqInit /\ [][TransportNext]_vars

\* ------------------------------------------------------------------------
\* bridgeLineToAddrPort applied to a line, and then to its own result
\* ------------------------------------------------------------------------
NoAddrPort == [val |-> EmptyStr, err |-> TRUE]

LexInit ==
    /\ ParserInit /\ parser.Target = AP1
    /\ CacheInit
    /\ ButLexIdle
    /\ lex \in {[pc |-> "line", bridgeLine |-> LineText(b),
                  addrPort |-> NoAddrPort, again |-> NoAddrPort] : b \in LexLines}

\* addrPort, err := bridgeLineToAddrPort(bridgeLine)
ToAddrPort ==
    /\ lex.pc = "line"
    /\ lex' = [lex EXCEPT !.pc = "addrPort",
                          !.addrPort = bridgeLineToAddrPort(lex.bridgeLine)]
    /\ UNCHANGED butLex

\* the function applied to the addr:port it returned
ToAddrPortAgain ==
    /\ lex.pc = "addrPort"
    /\ ~lex.addrPort.err
    /\ lex' = [lex EXCEPT !.pc = "again",
                          !.again = bridgeLineToAddrPort(lex.addrPort.val)]
    /\ UNCHANGED butLex

LexNext == ToAddrPort \/ ToAddrPortAgain

LexSpec == LexInit /\ [][LexNext]_vars

\* ------------------------------------------------------------------------
\* makeControlConnection
\* ------------------------------------------------------------------------
\* the dial attempts of the loop and the seconds slept after a failed dial
DialAttempts == 10
DialSleep == 1

\* a dial takes up to MaxDialTime seconds
MaxDialTime == 1

DialInit ==
    /\ ParserInit /\ parser.Target = AP1
    /\ CacheInit
    /\ ButDialIdle
    /\ dial = [pc |-> "for", attempts |-> 0, now |-> 0, dials |-> << >>,
               auths |-> << >>, ret |-> "none"]

\* the loop condition that admits one more attempt
ForAttempts_Inclusive ==
    /\ dial.pc = "for"
    /\ dial' = IF dial.attempts <= DialAttempts
               THEN [dial EXCEPT !.pc = "Dial"]
               ELSE [dial EXCEPT !.pc = "done", !.ret = "unable to connect to domain socket"]
    /\ UNCHANGED butDial

\* for attempts := 0; attempts < 10; ...; after the loop the error is returned
ForAttempts ==
    /\ dial.pc = "for"
    /\ dial' = IF dial.attempts < DialAttempts
               THEN [dial EXCEPT !.pc = "Dial"]
               ELSE [dial EXCEPT !.pc = "done", !.ret = "unable to connect to domain socket"]
    /\ UNCHANGED butDial

\* torCtrl, err = bulb.Dial("unix", domainSocket): the socket is ready or not
Dial ==
    /\ dial.pc = "Dial"
    /\ \E ok \in BOOLEAN, t \in 0..MaxDialTime :
         dial' = [dial EXCEPT !.pc = IF ok THEN "Authenticate" ELSE "Sleep",
                              !.dials = Append(@, [at |-> dial.now, ok |-> ok]),
                              !.now = @ + t]
    /\ UNCHANGED butDial

\* torCtrl.Authenticate(""): on an error the function returns it, else the
\* connection
Authenticate ==
    /\ dial.pc = "Authenticate"
    /\ \E ok \in BOOLEAN :
         dial' = [dial EXCEPT !.pc = "done",
                              !.auths = Append(@, [cookie |-> "", ok |-> ok]),
                              !.ret = IF ok THEN "torCtrl"
                                      ELSE "authentication with tor's control port failed"]
    /\ UNCHANGED butDial

\* time.Sleep(1 * time.Second); attempts++
Sleep ==
    /\ dial.pc = "Sleep"
    /\ dial' = [dial EXCEPT !.pc = "for", !.attempts = @ + 1, !.now = @ + DialSleep]
    /\ UNCHANGED butDial

DialNext == ForAttempts \/ Dial \/ Authenticate \/ Sleep

DialSpec == DialInit /\ [][DialNext]_vars

\* the goroutine that runs the function is scheduled
DialFairSpec == DialSpec /\ WF_vars(DialNext)

\* ------------------------------------------------------------------------
\* main: the service runs until a signal, then shuts down
\* ------------------------------------------------------------------------
\* the seconds the Web server is given to shut down (time.Minute)
ShutdownGrace == 60

\* srv.Shutdown returns at once, after a second, or when the grace is over
ShutdownTimes == {0, 1, ShutdownGrace}

\* main runs as goroutine h1, the handler of a request as h2
MainInit ==
    /\ ParserInit /\ parser.Target = AP1
    /\ CacheInit
    /\ ButMainpIdle
    /\ mainp \in {[pc |-> "serve", cacheFile |-> f, calls |-> << >>] : f \in Files}

\* a handler stores test results while the server has not shut down cleanly
Serve(p) ==
    /\ mainp.pc # "exit"
    /\ \A i \in 1..Len(mainp.calls) :
           mainp.calls[i].call = "srv.Shutdown" => mainp.calls[i].err
    /\ \/ \E e \in ErrorStrings : AddEntryCall(p, ConcLine[p], e, clock)
       \/ AddEntryInsert(p)
       \/ AddEntryFrac(p)
       \/ Lock(p)

\* <-signalChan: SIGINT or SIGTERM was delivered
Signal ==
    /\ mainp.pc = "serve"
    /\ mainp' = [mainp EXCEPT !.pc = "Stop"]
    /\ UNCHANGED butMainp

\* main that gives up when the client cannot be stopped
Stop_ReturnOnError ==
    /\ mainp.pc = "Stop"
    /\ \E err \in BOOLEAN :
         mainp' = [mainp EXCEPT !.pc = IF err THEN "exit" ELSE "Shutdown",
                                !.calls = Append(@, [call |-> "torCtx.Stop", err |-> err, took |-> 0])]
    /\ UNCHANGED butMainp

\* torCtx.Stop(): an error is logged
Stop ==
    /\ mainp.pc = "Stop"
    /\ \E err \in BOOLEAN :
         mainp' = [mainp EXCEPT !.pc = "Shutdown",
                                !.calls = Append(@, [call |-> "torCtx.Stop", err |-> err, took |-> 0])]
    /\ UNCHANGED butMainp

\* srv.Shutdown(ctx) with the deadline a minute from now: it returns nil when
\* no handler is running any more, and an error at the deadline at the
\* latest; the error is logged
Shutdown ==
    /\ mainp.pc = "Shutdown"
    /\ \E err \in BOOLEAN, took \in ShutdownTimes :
         /\ ~err => \A p \in Procs \ {"h1"} : pc[p] = "idle"
         /\ mainp' = [mainp EXCEPT !.pc = "WriteToDisk",
                                   !.calls = Append(@, [call |-> "srv.Shutdown", err |-> err, took |-> took])]
    /\ UNCHANGED butMainp

\* cache.WriteToDisk(cacheFile)
MainWriteToDisk ==
    /\ mainp.pc = "WriteToDisk"
    /\ \/ lastOp["h1"] # "WriteToDisk" /\ WriteToDiskCall("h1", mainp.cacheFile)
       \/ Lock("h1")
       \/ WriteToDiskEncode("h1")

\* an error of WriteToDisk is logged and main returns
Exit ==
    /\ mainp.pc = "WriteToDisk"
    /\ pc["h1"] = "idle" /\ lastOp["h1"] = "WriteToDisk"
    /\ mainp' = [mainp EXCEPT !.pc = "exit"]
    /\ UNCHANGED butMainp

MainStep == Signal \/ Stop \/ Shutdown \/ MainWriteToDisk \/ Exit

MainNext == Tick \/ Serve("h2") \/ MainStep

MainSpec == MainInit /\ [][MainNext]_vars

\* main is scheduled, and gets the mutex of the cache when it is free again
\* and again; a handler that holds the mutex goes on to release it
MainFairSpec ==
    MainSpec /\ WF_vars(Signal \/ Stop \/ Shutdown \/ Exit)
             /\ WF_vars(MainWriteToDisk) /\ SF_vars(Lock("h1"))
             /\ WF_vars(AddEntryInsert("h2") \/ AddEntryFrac("h2"))

\* ------------------------------------------------------------------------
\* the request queue and dispatchRequests
\* ------------------------------------------------------------------------
\* make(chan *TestRequest, 1000)
ReqChanCap == 1000

\* handlers waiting to send at a time, and tests running at a time
MaxBlocked == 1
MaxInFlight == 2

\* Requests are counted: reqChan is the number of buffered requests, blocked
\* the handlers waiting in `reqChan <- req`, running the processRequest
\* goroutines that have not sent their result; delay is set while a tick of
\* the ticker is buffered.
DispatchInit ==
    /\ ParserInit /\ parser.Target = AP1
    /\ CacheInit
    /\ ButDispIdle
    /\ disp = [pc |-> "select", reqChan |-> 0, blocked |-> 0, running |-> 0,
               delay |-> FALSE]

\* BridgeState, bridge line not cached: reqChan <- req
SendRequest ==
    /\ disp.blocked < MaxBlocked
    /\ disp' = IF disp.reqChan < ReqChanCap
               THEN [disp EXCEPT !.reqChan = @ + 1]
               ELSE [disp EXCEPT !.blocked = @ + 1]
    /\ UNCHANGED butDisp

\* a waiting handler sends when the channel has room again
SendUnblocked ==
    /\ disp.blocked > 0
    /\ disp.reqChan < ReqChanCap
    /\ disp' = [disp EXCEPT !.reqChan = @ + 1, !.blocked = @ - 1]
    /\ UNCHANGED butDisp

\* dispatchRequests: case req := <-reqChan: go processRequest(req)
ReceiveRequest ==
    /\ disp.pc = "select"
    /\ disp.reqChan > 0
    /\ disp.running < MaxInFlight
    /\ disp' = [disp EXCEPT !.pc = "delay", !.reqChan = @ - 1, !.running = @ + 1]
    /\ UNCHANGED butDisp

\* dispatchRequests: case <-delay
ReceiveDelay ==
    /\ disp.pc = "delay"
    /\ disp.delay
    /\ disp' = [disp EXCEPT !.pc = "select", !.delay = FALSE]
    /\ UNCHANGED butDisp

\* the ticker of time.Tick sends a tick; it is dropped when one is buffered
Ticker ==
    /\ ~disp.delay
    /\ disp' = [disp EXCEPT !.delay = TRUE]
    /\ UNCHANGED butDisp

\* dispatchRequests: case <-shutdown: return (in either select)
ReceiveShutdown ==
    /\ disp.pc \in {"select", "delay"}
    /\ disp' = [disp EXCEPT !.pc = "returned"]
    /\ UNCHANGED butDisp

\* processRequest: the test is over, req.respChan <- result
processRequest ==
    /\ disp.running > 0
    /\ disp' = [disp EXCEPT !.running = @ - 1]
    /\ UNCHANGED butDisp

DispatchNext ==
    \/ SendRequest
    \/ SendUnblocked
    \/ ReceiveRequest
    \/ ReceiveDelay
    \/ Ticker
    \/ ReceiveShutdown
    \/ processRequest

DispatchSpec == DispatchInit /\ [][DispatchNext]_vars

\* ------------------------------------------------------------------------
\* bootstrapTorOverBridgeWrapped: one tor process per test
\* ------------------------------------------------------------------------
\* the timeout of a test, in seconds
TorBootstrapTimeout == 60

SuccessPat == <<"P","R","O","G","R","E","S","S","=","1","0","0">>
WarningPat == <<"S","T","A","T","U","S","_","C","L","I","E","N","T"," ","W","A","R","N"," ","B","O","O","T","S","T","R","A","P">>
WarningArg == <<"W","A","R","N","I","N","G","=","\"">>
LineNotice == <<"6","5","0"," ","S","T","A","T","U","S","_","C","L","I","E","N","T"," ","N","O","T","I","C","E"," ","B","O","O","T","S","T","R","A","P"," ","P","R","O","G","R","E","S","S","=","5","0">>
LineDone == <<"6","5","0"," ","S","T","A","T","U","S","_","C","L","I","E","N","T"," ","N","O","T","I","C","E"," ","B","O","O","T","S","T","R","A","P"," ","P","R","O","G","R","E","S","S","=","1","0","0">>
LineWarn == <<"6","5","0"," ","S","T","A","T","U","S","_","C","L","I","E","N","T"," ","W","A","R","N"," ","B","O","O","T","S","T","R","A","P"," ","P","R","O","G","R","E","S","S","=","1","0"," ","W","A","R","N","I","N","G","=","\"","r","e","f","u","s","e","d","\"">>
LineWarnBare == <<"6","5","0"," ","S","T","A","T","U","S","_","C","L","I","E","N","T"," ","W","A","R","N"," ","B","O","O","T","S","T","R","A","P"," ","P","R","O","G","R","E","S","S","=","1","0">>

\* the event lines tor sends on the control channel
TorLines == {LineNotice, LineDone, LineWarn, LineWarnBare}

\* p occurs in s
Contains(p, s) == \E i \in 1..Len(s) : IsAt(p, s, i)

\* success = `PROGRESS=100`, warning = `STATUS_CLIENT WARN BOOTSTRAP`
SuccessMatch(line) == Contains(SuccessPat, line)
WarningMatch(line) == Contains(WarningPat, line)

\* re.FindStringSubmatch(line) for `WARNING="([^"]*)"`: << >> when there is
\* no match, else <<the match, group 1>>
IsNotQuote(c) == c # "\""

WarningSubmatch(line) ==
    LET Starts == {i \in 1..Len(line) :
                     /\ IsAt(WarningArg, line, i)
                     /\ RunEnd(IsNotQuote, line, i + Len(WarningArg)) <= Len(line)}
    IN IF Starts = {} THEN << >>
       ELSE LET i == MinOf(Starts)
                e == RunEnd(IsNotQuote, line, i + Len(WarningArg))
            IN <<SubSeq(line, i, e), SubSeq(line, i + Len(WarningArg), e - 1)>>

\* the errors the function returns: a literal message, or the text of tor's
\* warning
NilError == [err |-> FALSE, msg |-> "", warning |-> EmptyStr]
Errorf(msg) == [err |-> TRUE, msg |-> msg, warning |-> EmptyStr]
ErrorfWarning(text) == [err |-> TRUE, msg |-> "", warning |-> text]

\* what the loop over ev.RawLines does with a line: "none" is no return
LineVerdict(line) ==
    IF SuccessMatch(line) THEN [returns |-> TRUE, error |-> NilError]
    ELSE IF WarningMatch(line)
         THEN LET matches == WarningSubmatch(line)
              IN IF Len(matches) # 2
                 THEN [returns |-> TRUE, error |-> Errorf("could not bootstrap")]
                 ELSE [returns |-> TRUE, error |-> ErrorfWarning(matches[2])]
    ELSE [returns |-> FALSE, error |-> NilError]

NoLine == <<"-">>

\* pc: where the function is; now: seconds since the context was made;
\* proc: the tor process; conn: the control connection; line: the event the
\* reader holds for NextEvent; ret: the returned error; by: the statement
\* that returned it (history)
TestInit ==
    /\ ParserInit /\ parser.Target = AP1
    /\ CacheInit
    /\ ButTestIdle
    /\ test = [pc |-> "Start", now |-> 0, proc |-> "none", conn |-> "none",
               line |-> NoLine, ret |-> NilError, by |-> "none"]

\* the configuration is written, tor is started and the control connection is
\* made and subscribed to STATUS_CLIENT; any of these can fail
Start ==
    /\ test.pc = "Start"
    /\ \/ test' = [test EXCEPT !.pc = "done", !.ret = Errorf("setup failed"), !.by = "Start"]
       \/ test' = [test EXCEPT !.pc = "NextEvent", !.proc = "running", !.conn = "open"]
    /\ UNCHANGED butTest

\* a second passes while the test runs
Second ==
    /\ test.pc = "NextEvent"
    /\ test.now < TorBootstrapTimeout
    /\ test' = [test EXCEPT !.now = @ + 1]
    /\ UNCHANGED butTest

\* tor sends an event, which the asynchronous reader holds
TorEvent ==
    /\ test.pc = "NextEvent" /\ test.proc = "running" /\ test.line = NoLine
    /\ \E line \in TorLines : test' = [test EXCEPT !.line = line]
    /\ UNCHANGED butTest

\* the context expires: exec.CommandContext kills the process, and the
\* control connection is closed with it
ContextTimeout ==
    /\ test.pc = "NextEvent" /\ test.proc = "running"
    /\ test.now = TorBootstrapTimeout
    /\ test' = [test EXCEPT !.proc = "killed", !.conn = "closed"]
    /\ UNCHANGED butTest

\* tor dies by itself
TorDies ==
    /\ test.pc = "NextEvent" /\ test.proc = "running"
    /\ test' = [test EXCEPT !.proc = "exited", !.conn = "closed"]
    /\ UNCHANGED butTest

\* the deferred calls: cancel() kills a process that still runs,
\* torCtrl.Close()
Return(error, by) ==
    [test EXCEPT !.pc = "done", !.ret = error, !.by = by, !.conn = "closed",
                 !.line = NoLine,
                 !.proc = IF @ = "running" THEN "cancelled" ELSE @]

\* the loop that does not return when NextEvent fails
NextEventError_Retry ==
    /\ test.pc = "NextEvent"
    /\ test.conn = "closed"
    /\ test' = [test EXCEPT !.line = NoLine]
    /\ UNCHANGED butTest

\* ev, err := torCtrl.NextEvent() fails on a closed connection (an event the
\* reader still holds may be lost): the timeout error is returned
NextEventError ==
    /\ test.pc = "NextEvent"
    /\ test.conn = "closed"
    /\ test' = Return(Errorf("timed out waiting for Tor to bootstrap"), "NextEvent")
    /\ UNCHANGED butTest

\* NextEvent returns an event: its line decides the test or the loop goes on
NextEventLine ==
    /\ test.pc = "NextEvent"
    /\ test.line # NoLine
    /\ LET v == LineVerdict(test.line)
       IN test' = IF v.returns THEN Return(v.error, "RawLines")
                  ELSE [test EXCEPT !.line = NoLine]
    /\ UNCHANGED butTest

TestNext ==
    \/ Start
    \/ Second
    \/ TorEvent
    \/ ContextTimeout
    \/ TorDies
    \/ NextEventError
    \/ NextEventLine

TestSpec == TestInit /\ [][TestNext]_vars

\* the goroutine of the test is scheduled, and the context expires in time
TestFairSpec ==
    TestSpec /\ WF_vars(Start \/ NextEventError \/ NextEventLine)
             /\ WF_vars(Second \/ ContextTimeout)

\* ------------------------------------------------------------------------
\* BridgeState: the handler of /bridge-state and its response
\* ------------------------------------------------------------------------
\* the most bridge lines of a request
MaxBridgesPerReq == 100

\* http.ResponseWriter: the status that was sent (0: none yet) and the
\* chunks written to the body
NewResponseWriter == [status |-> 0, body |-> << >>]

Text(s) == [kind |-> "text", text |-> s, json |-> NewTestResult]
Json(r) == [kind |-> "json", text |-> "", json |-> r]

\* w.WriteHeader(code): only the first call sends a status
WriteHeader(w, code) == IF w.status = 0 THEN [w EXCEPT !.status = code] ELSE w

\* fmt.Fprintln(w, chunk): a write before any WriteHeader sends status 200
Fprintln(w, chunk) == [WriteHeader(w, 200) EXCEPT !.body = Append(@, chunk)]

\* http.Error(w, error, code)
HttpError(w, error, code) == Fprintln(WriteHeader(w, code), Text(error))

\* SendJSONResponse(w, response): SendResponse writes status 200 and the body
SendJSONResponse(w, chunk) == Fprintln(WriteHeader(w, 200), chunk)

\* Requests: the body cannot be read, is not JSON, or is parsed.  A request
\* with the field bridge_lines carries a list of lines and is handled by the
\* BridgeState of part_008; one with the field bridge_line carries one line
\* (an empty list: the empty string) and is handled by the BridgeState of
\* handlers.go.
VanillaLine == BridgeLine(EmptyStr, AP1, EmptyStr)

ListLens == {0, 1, MaxBridgesPerReq, MaxBridgesPerReq + 1}

HttpRequests ==
    {[field |-> "bridge_lines", body |-> b, BridgeLines |-> << >>] : b \in {"unreadable", "malformed"}}
    \cup {[field |-> "bridge_lines", body |-> "parsed", BridgeLines |-> [i \in 1..n |-> VanillaLine]] :
            n \in ListLens}
    \cup {[field |-> "bridge_line", body |-> "parsed", BridgeLines |-> [i \in 1..n |-> VanillaLine]] :
            n \in {0, 1}}

NoRes == [Functional |-> FALSE, Error |-> "", Time |-> 0]

HttpInit ==
    /\ ParserInit /\ parser.Target = AP1
    /\ CacheInit
    /\ ButHttpIdle
    /\ http = [pc |-> "accept", req |-> CHOOSE r \in HttpRequests : r.body = "unreadable",
               w |-> NewResponseWriter, res |-> NoRes, marshalErr |-> FALSE,
               atRequest |-> << >>]

\* the server calls BridgeState for a request
BridgeStateRequest(p) ==
    /\ http.pc \in {"accept", "done"}
    /\ \E r \in HttpRequests :
         http' = [pc |-> "ReadAll", req |-> r, w |-> NewResponseWriter, res |-> NoRes,
                  marshalErr |-> FALSE, atRequest |-> Entries]
    /\ UNCHANGED butHttp

\* ioutil.ReadAll, json.Unmarshal and the checks of the request: 500 when the
\* body cannot be read, 400 when it is not JSON, when no bridge line is given
\* and (bridge_lines) when there are more than MaxBridgesPerReq lines
BridgeStateCheck(p) ==
    /\ http.pc = "ReadAll"
    /\ LET r == http.req
           n == Len(r.BridgeLines)
           reply(error, code) ==
               [http EXCEPT !.pc = "done", !.w = HttpError(http.w, error, code)]
       IN http' =
            IF r.body = "unreadable" THEN reply("read error", 500)
            ELSE IF r.body = "malformed" THEN reply("unmarshal error", 400)
            ELSE IF n = 0 THEN reply("no bridge lines given", 400)
            ELSE IF r.field = "bridge_lines" /\ n > MaxBridgesPerReq
                 THEN reply("maximum of 100 bridge lines allowed", 400)
            ELSE [http EXCEPT !.pc = "test"]
    /\ UNCHANGED butHttp

\* bridge_lines: result := testBridgeLines(req.BridgeLines)
BridgeStateTest(p) ==
    /\ http.pc = "test" /\ http.req.field = "bridge_lines"
    /\ hs.phase = "idle"
    /\ testBridgeLinesCall(p, http.req.BridgeLines)

\* testBridgeLines runs
BridgeStateTestRun(p) ==
    /\ http.pc = "test" /\ http.req.field = "bridge_lines"
    /\ hs.phase # "idle"
    /\ \/ LoopIsCached(p)
       \/ IsCachedPrune(p)
       \/ IsCachedLookup(p)
       \/ LoopEntry(p)
       \/ Dispatch(p)
       \/ RangeAddEntry(p)
       \/ AddEntryInsert(p)
       \/ AddEntryFrac(p)
       \/ RangeStored(p)
       \/ Lock(p)

\* bridge_lines: json.Marshal(result); on an error 500 and return, else the
\* JSON response
BridgeStateMarshal(p) ==
    /\ http.pc = "test" /\ http.req.field = "bridge_lines"
    /\ hs.phase = "done"
    /\ \E err \in BOOLEAN :
         http' = [http EXCEPT !.pc = "done", !.marshalErr = err,
                     !.w = IF err THEN HttpError(http.w, "failed to marshal test tesult", 500)
                           ELSE SendJSONResponse(http.w, Json(hs.result))]
    /\ hs' = NoBatch
    /\ UNCHANGED <<evVars, Entries, l, clock, pc, locals, ret, fracMetric, atCall, lastOp,
                   disk, touched, restHttp>>

\* bridge_line: entry := cache.IsCached(req.BridgeLine)
BridgeLineIsCached(p) ==
    /\ http.pc = "test" /\ http.req.field = "bridge_line"
    /\ \/ locals[p].op = "none" /\ IsCachedCall(p, http.req.BridgeLines[1])
       \/ IsCachedPrune(p)
       \/ IsCachedLookup(p)
       \/ Lock(p)

\* bridge_line: a cached line is answered from its entry; for any other line
\* the request is sent to reqChan and the handler waits for the result
BridgeLineEntry(p) ==
    /\ http.pc = "test" /\ http.req.field = "bridge_line"
    /\ pc[p] = "idle" /\ lastOp[p] = "IsCached" /\ locals[p].op = "IsCached"
    /\ LET entry == Deref(ret[p], Entries)
       IN http' = IF ret[p] # Nil
                  THEN [http EXCEPT !.pc = "Marshal",
                           !.res = [Functional |-> entry.Error = "", Error |-> entry.Error, Time |-> 0]]
                  ELSE [http EXCEPT !.pc = "respChan"]
    /\ locals' = [locals EXCEPT ![p] = NoLocals]
    /\ UNCHANGED <<evVars, Entries, l, clock, pc, ret, fracMetric, atCall, lastOp,
                   disk, touched, hs, restHttp>>

\* processRequest in the goroutine q: the bridge is tested and
\* bootstrapTorOverBridge stores the outcome in the cache
bootstrapTorOverBridge(q) ==
    /\ http.pc = "respChan"
    /\ \/ /\ locals[q].op = "none"
          /\ \E e \in ErrorStrings : AddEntryCall(q, http.req.BridgeLines[1], e, clock)
       \/ AddEntryInsert(q)
       \/ AddEntryFrac(q)
       \/ Lock(q)

\* bridge_line: res = <-respChan
BridgeLineReceive(q) ==
    /\ http.pc = "respChan"
    /\ pc[q] = "idle" /\ lastOp[q] = "AddEntry" /\ locals[q].op = "AddEntry"
    /\ http' = [http EXCEPT !.pc = "Marshal",
                   !.res = [Functional |-> locals[q].errorStr = "",
                            Error |-> locals[q].errorStr, Time |-> 1]]
    /\ locals' = [locals EXCEPT ![q] = NoLocals]
    /\ UNCHANGED <<evVars, Entries, l, clock, pc, ret, fracMetric, atCall, lastOp,
                   disk, touched, hs, restHttp>>

\* bridge_line: json.Marshal(res); on an error 500 is sent, and then, as
\* after a successful Marshal, SendJSONResponse(w, string(jsonResult))
BridgeLineMarshal ==
    /\ http.pc = "Marshal"
    /\ \E err \in BOOLEAN :
         http' = [http EXCEPT !.pc = "done", !.marshalErr = err,
                     !.w = IF err
                           THEN SendJSONResponse(
                                    HttpError(http.w, "failed to marshal test tesult", 500),
                                    Text(""))
                           ELSE SendJSONResponse(http.w, Json(http.res))]
    /\ UNCHANGED butHttp

HttpNext ==
    \/ Tick
    \/ BridgeStateRequest("h1")
    \/ BridgeStateCheck("h1")
    \/ BridgeStateTest("h1")
    \/ BridgeStateTestRun("h1")
    \/ BridgeStateMarshal("h1")
    \/ BridgeLineIsCached("h1")
    \/ BridgeLineEntry("h1")
    \/ bootstrapTorOverBridge("h2")
    \/ BridgeLineReceive("h2")
    \/ BridgeLineMarshal

HttpSpec == HttpInit /\ [][HttpNext]_vars

\* ------------------------------------------------------------------------
\* The control-port reader, the event queue and the batch dispatcher, as the
\* specification describes them
\* ------------------------------------------------------------------------
\* the capacities of the request queue and of the event queue
RequestQueueCap == 100
EventQueueCap == 100

\* batches started and events emitted in a run
MaxBatches == 2
MaxEvents == 3

\* An event is represented by the number of the batch whose SETCONF made the
\* client emit it.  requests: the requests waiting in the request queue;
\* started: the batches started so far; batch: the batch in flight (0: none);
\* pending: its parser is still Pending; setconf: the batch of the last
\* SETCONF (0: none); queue: the event queue; emitted: the events emitted so
\* far; fed: which events were fed to the parsers of which batch (history).
BusInit ==
    /\ ParserInit /\ parser.Target = AP1
    /\ CacheInit
    /\ ButBusIdle
    /\ bus = [pc |-> "select", requests |-> 0, started |-> 0, batch |-> 0,
              pending |-> FALSE, setconf |-> 0, queue |-> << >>, closed |-> FALSE,
              emitted |-> 0, fed |-> {}, error |-> ""]

\* a handler submits a request
SubmitRequest ==
    /\ bus.requests < RequestQueueCap
    /\ bus.started + bus.requests < MaxBatches
    /\ bus' = [bus EXCEPT !.requests = @ + 1]
    /\ UNCHANGED butBus

\* the client emits an event for the bridges of the last SETCONF, also after
\* the batch has returned; the reader pushes it onto the event queue
ReaderPush ==
    /\ ~bus.closed
    /\ bus.setconf > 0
    /\ bus.emitted < MaxEvents
    /\ Len(bus.queue) < EventQueueCap
    /\ bus' = [bus EXCEPT !.queue = Append(@, bus.setconf), !.emitted = @ + 1]
    /\ UNCHANGED butBus

\* the reader fails to read (the client died): it closes the queue and exits
ReaderClose ==
    /\ ~bus.closed
    /\ bus.setconf > 0
    /\ bus' = [bus EXCEPT !.closed = TRUE]
    /\ UNCHANGED butBus

\* no batch in flight: an event is taken from the queue and discarded
Drain ==
    /\ bus.pc = "select"
    /\ bus.queue # << >>
    /\ bus' = [bus EXCEPT !.queue = Tail(@)]
    /\ UNCHANGED butBus

\* no batch in flight: a request is taken; the parsers are built,
\* SIGNAL ACTIVE and SETCONF are sent and the event loop is entered
StartBatch ==
    /\ bus.pc = "select"
    /\ bus.requests > 0
    /\ bus' = [bus EXCEPT !.pc = "loop", !.requests = @ - 1, !.started = @ + 1,
                          !.batch = bus.started + 1, !.setconf = bus.started + 1,
                          !.pending = TRUE, !.error = ""]
    /\ UNCHANGED butBus

\* event loop, on event: Feed(line) is called for every parser still Pending,
\* which stays Pending or becomes terminal
LoopEvent ==
    /\ bus.pc = "loop"
    /\ bus.pending
    /\ bus.queue # << >>
    /\ \E terminal \in BOOLEAN :
         bus' = [bus EXCEPT !.queue = Tail(@),
                            !.fed = @ \cup {[event |-> Head(bus.queue), batch |-> bus.batch]},
                            !.pending = ~terminal]
    /\ UNCHANGED butBus

\* event loop, on all parsers terminal: return
LoopReturn ==
    /\ bus.pc = "loop"
    /\ ~bus.pending
    /\ bus' = [bus EXCEPT !.pc = "select", !.batch = 0]
    /\ UNCHANGED butBus

\* event loop, on deadline: the Pending parsers are decided as timed out
LoopDeadline ==
    /\ bus.pc = "loop"
    /\ bus.pending
    /\ bus' = [bus EXCEPT !.pc = "select", !.batch = 0, !.pending = FALSE]
    /\ UNCHANGED butBus

\* event loop, on closed event queue: a batch-level error is returned
LoopClosed ==
    /\ bus.pc = "loop"
    /\ bus.pending
    /\ bus.closed /\ bus.queue = << >>
    /\ bus' = [bus EXCEPT !.pc = "select", !.batch = 0, !.pending = FALSE,
                          !.error = "client died"]
    /\ UNCHANGED butBus

BusNext ==
    \/ SubmitRequest
    \/ ReaderPush
    \/ ReaderClose
    \/ Drain
    \/ StartBatch
    \/ LoopEvent
    \/ LoopReturn
    \/ LoopDeadline
    \/ LoopClosed

BusSpec == BusInit /\ [][BusNext]_vars

\* ------------------------------------------------------------------------
\* dispatchRequests and its ticker, in seconds
\* ------------------------------------------------------------------------
\* flag -seconds, the default
NumSeconds == 2

\* the seconds followed, and the requests buffered at a time
MaxClock == 5
MaxQueued == 2

\* delay := time.Tick(numSeconds): the ticker sends every NumSeconds seconds
\* from the start of the dispatcher into a channel that buffers one tick.
\* taken is the time at which the dispatcher took its latest request, gap the
\* seconds between that request and the one before (history).
TickInit ==
    /\ ParserInit /\ parser.Target = AP1
    /\ CacheInit
    /\ ButDispIdle
    /\ disp = [pc |-> "select", reqChan |-> 0, delay |-> FALSE, now |-> 0,
               taken |-> -1, gap |-> NumSeconds]

\* BridgeState: reqChan <- req
Arrive ==
    /\ disp.reqChan < MaxQueued
    /\ disp' = [disp EXCEPT !.reqChan = @ + 1]
    /\ UNCHANGED butDisp

\* a second passes; the ticker sends when its period is over, and the tick
\* is dropped when one is buffered already
Elapse ==
    /\ disp.now < MaxClock
    /\ disp' = [disp EXCEPT !.now = @ + 1,
                            !.delay = @ \/ ((disp.now + 1) % NumSeconds = 0)]
    /\ UNCHANGED butDisp

\* case req := <-reqChan: go processRequest(req)
TakeRequest ==
    /\ disp.pc = "select"
    /\ disp.reqChan > 0
    /\ disp' = [disp EXCEPT !.pc = "delay", !.reqChan = @ - 1,
                            !.taken = disp.now,
                            !.gap = IF disp.taken < 0 THEN NumSeconds
                                    ELSE disp.now - disp.taken]
    /\ UNCHANGED butDisp

\* the inner select: case <-delay
TakeTick ==
    /\ disp.pc = "delay"
    /\ disp.delay
    /\ disp' = [disp EXCEPT !.pc = "select", !.delay = FALSE]
    /\ UNCHANGED butDisp

\* case <-shutdown: return (in either select)
TakeShutdown ==
    /\ disp.pc \in {"select", "delay"}
    /\ disp' = [disp EXCEPT !.pc = "returned"]
    /\ UNCHANGED butDisp

TickNext == Arrive \/ Elapse \/ TakeRequest \/ TakeTick \/ TakeShutdown

TickSpec == TickInit /\ [][TickNext]_vars

\* ------------------------------------------------------------------------
\* the cache file read and written while another request adds its result
\* ------------------------------------------------------------------------
OtherStep(p) ==
    \/ \E e \in ErrorStrings : AddEntryCall(p, ConcLine[p], e, clock)
    \/ AddEntryInsert(p)
    \/ AddEntryFrac(p)
    \/ Lock(p)

OpenStep(p) ==
    \/ \E f \in Files : WriteToDiskCall(p, f)
    \/ WriteToDiskEncode(p)
    \/ \E f \in Files : ReadFromDiskCall(p, f)
    \/ ReadFromDiskDecode(p)
    \/ Lock(p)

OpenNext == Tick \/ OpenStep("h1") \/ OtherStep("h2")

OpenSpec == CacheSeqInit /\ [][OpenNext]_vars



\* ------------------------------------------------------------------------
\* Properties of the event parser
\* ------------------------------------------------------------------------
Terminal(st) == st \in {BridgeStateSuccess, BridgeStateFailure}

\* C1: once State is Success or Failure, feeding any further line leaves
\* State and Reason unchanged.
C1_TerminalAbsorbing ==
    (ev # NoEvent /\ Terminal(old.State))
        => (parser.State = old.State /\ parser.Reason = old.Reason)

FailedOnRemembered(e, t) ==
    IsVerb(e, FAILED) /\ IdNum(e) \in t.ConnIds /\ t.State = BridgeStatePending

C3_FailedSetsReason ==
    (FailedOnRemembered(ev, old) /\ ev.reason \in KnownReasons)
        => (parser.State = BridgeStateFailure /\ parser.Reason = reasons[ev.reason])

\* C4: a Pending parser moves to Success on a NEWDESC whose fingerprint F is
\* the recorded fingerprint or the identity T without its leading "$".
C4_NewDescMatchesIdentity ==
    (/\ ev.kind = "NEWDESC"
     /\ CarriedFp(ev) # EmptyStr
     /\ old.State = BridgeStatePending
     /\ (CarriedFp(ev) = old.Fingerprint \/ Dollar \o CarriedFp(ev) = old.Target))
        => parser.State = BridgeStateSuccess

\* C5: a LAUNCHED event with target t and ID i makes the parser remember i
\* exactly when t and T agree on their first min(len(t), len(T), 41)
\* characters.
AgreeOnPrefix(tg, T) ==
    LET n == Min2(Min2(Len(tg), Len(T)), BridgeFingerprintLen + 1)
    IN SubSeq(tg, 1, n) = SubSeq(T, 1, n)

C5_LaunchedPrefixMatch ==
    (IsVerb(ev, LAUNCHED) /\ IdNum(ev) \notin old.ConnIds)
        => (IdNum(ev) \in parser.ConnIds <=> AgreeOnPrefix(ev.target, old.Target))

\* C6: a LAUNCHED event whose target is the addr:port or the fingerprint of
\* another bridge, or is empty, never adds its ID to connIds.
IsFpIdentity(x) == Len(x) > 0 /\ x[1] = "$"

OtherBridge(tg, T) ==
    \/ tg = EmptyStr
    \/ /\ IsFpIdentity(tg) = IsFpIdentity(T)
       /\ SubSeq(tg, 1, BridgeFingerprintLen + 1) # SubSeq(T, 1, BridgeFingerprintLen + 1)

C6_NoConflation ==
    (IsVerb(ev, LAUNCHED) /\ OtherBridge(ev.target, old.Target)
        /\ IdNum(ev) \notin old.ConnIds)
        => IdNum(ev) \notin parser.ConnIds

\* C7: FAILED on a remembered ID with an unknown or absent REASON code still
\* moves the Pending parser to Failure, with the empty Reason.
C7_UnknownReasonFails ==
    (FailedOnRemembered(ev, old) /\ ev.reason \notin KnownReasons)
        => (parser.State = BridgeStateFailure /\ parser.Reason = "")

C7_Witness ==
    FailedOnRemembered(ev, old) /\ ev.reason = BOGUS /\ parser.State = BridgeStateFailure

\* C8: a CLOSED event leaves a Pending parser Pending and its Reason
\* unchanged, whatever the REASON and whether or not the ID is remembered.
C8_ClosedIgnored ==
    (IsVerb(ev, CLOSED) /\ old.State = BridgeStatePending)
        => (parser.State = BridgeStatePending /\ parser.Reason = old.Reason)

C8_Witness ==
    /\ IsVerb(ev, CLOSED)
    /\ ev.reason = IOERROR
    /\ IdNum(ev) \in old.ConnIds
    /\ old.State = BridgeStatePending
    /\ parser.State = BridgeStatePending

\* C9: Feed never panics, and a line that does not parse leaves State,
\* Reason, Fingerprint and connIds unchanged.
C9_FeedTotal ==
    /\ ~panicked
    /\ ev \in MalformedEvents =>
          /\ parser.State = old.State
          /\ parser.Reason = old.Reason
          /\ parser.Fingerprint = old.Fingerprint
          /\ parser.ConnIds = old.ConnIds

C9_Witness ==
    /\ ev = OrConnEv(AP1, FAILED, DONE, TRUE, <<"x">>)
    /\ old.ConnIds # {}
    /\ old.State = BridgeStatePending
    /\ ~panicked

NotOurs(e, t) ==
    \/ IsVerb(e, LAUNCHED) /\ ~MatchesTarget(e.target, t.Target)
    \/ /\ \E verb \in {CONNECTED, FAILED, CLOSED} : IsVerb(e, verb)
       /\ IdNum(e) \notin t.ConnIds

\* C31: an ORCONN event that is not the parser's (a LAUNCHED whose target
\* does not match T; a CONNECTED, FAILED or CLOSED whose ID is not in ConnIds)
\* changes none of State, Reason, Fingerprint and ConnIds.
C31_ForeignEventsIgnored ==
    NotOurs(ev, old) =>
        /\ parser.State = old.State
        /\ parser.Reason = old.Reason
        /\ parser.Fingerprint = old.Fingerprint
        /\ parser.ConnIds = old.ConnIds

C31_Witness ==
    /\ IsVerb(ev, FAILED)
    /\ old.ConnIds # {}
    /\ IdNum(ev) \notin old.ConnIds
    /\ old.State = BridgeStatePending
    /\ parser = old

\* C35: State is Success only after a LAUNCHED matching T, then a CONNECTED
\* on a remembered ID carrying a fingerprint F, then a NEWDESC carrying F were
\* fed in that order; a NEWDESC fed before any such CONNECTED does not yield
\* Success; Fingerprint is not empty when State is Success.
C35_SuccessOrder ==
    /\ parser.State = BridgeStateSuccess =>
          /\ fed.described # {}
          /\ parser.Fingerprint # EmptyStr
    /\ (ev.kind = "NEWDESC" /\ fed.fps = {}) => parser.State # BridgeStateSuccess
    /\ fed.described \subseteq fed.fps
    /\ fed.fps # {} => fed.connected # {}
    /\ fed.connected \subseteq fed.launched

C35_Witness ==
    /\ parser.State = BridgeStateSuccess
    /\ old.State = BridgeStatePending
    /\ ev.kind = "NEWDESC"
    /\ fed.launched = {5, 7}
    /\ fed.connected = {7}
    /\ fed.described = {F2}

IsCachedReturned(p) ==
    pc[p] = "idle" /\ lastOp[p] = "IsCached" /\ locals[p].op = "IsCached"

\* the addr:port that the bridge line with this text was written with
WrittenAddrPort(text) == (CHOOSE b \in BridgeLines : LineText(b) = text).addrPort

Fresh(entry, now) == entry.Time >= now - EntryTimeout

\* C10: when IsCached returns, for any line, the cache holds no entry older
\* than now minus the entry timeout and still holds every entry within the
\* timeout; for the line of an expired entry nil is returned, for the line of
\* a fresh entry that entry.
C10_IsCachedPrunes ==
    \A p \in Procs : IsCachedReturned(p) =>
        LET now == locals[p].now
            k   == WrittenAddrPort(locals[p].line)
            pre == atCall[p]
        IN /\ \A a \in DOMAIN Entries : Fresh(Entries[a], now)
           /\ \A a \in DOMAIN pre : Fresh(pre[a], now) =>
                 /\ a \in DOMAIN Entries
                 /\ Entries[a].Error = pre[a].Error
                 /\ Entries[a].Time = pre[a].Time
           /\ (k \in DOMAIN pre /\ ~Fresh(pre[k], now)) => ret[p] = Nil
           /\ (k \in DOMAIN pre /\ Fresh(pre[k], now)) =>
                 /\ ret[p] = PointerTo(k)
                 /\ Entries[k] = [pre[k] EXCEPT !.CacheHits = @ + 1]

C10_Witness ==
    /\ IsCachedReturned("h1")
    /\ DOMAIN atCall["h1"] = {AP1, AP2}
    /\ ~Fresh(atCall["h1"][AP1], locals["h1"].now)
    /\ atCall["h1"][AP2].Time = locals["h1"].now - EntryTimeout
    /\ WrittenAddrPort(locals["h1"].line) = AP1
    /\ ret["h1"] = Nil
    /\ DOMAIN Entries = {AP2}

AddEntryReturned(p) ==
    pc[p] = "idle" /\ lastOp[p] = "AddEntry" /\ locals[p].op = "AddEntry"

\* C11: whenever IsCached returns an entry, or FracFunctional, AsV1Metrics or
\* WriteToDisk is about to count or write the entries, at time T, every such
\* entry has Time >= T - entryTimeout.
C11_NoExpiredObserved ==
    \A p \in Procs :
        /\ pc[p] \in {"ff_count", "v1_collect", "wd_encode"} =>
               \A k \in DOMAIN Entries : Fresh(Entries[k], clock)
        /\ (IsCachedReturned(p) /\ ret[p].live) =>
               Fresh(Entries[ret[p].key], locals[p].now)

\* C12: once AddEntry(L, err, t) has returned, the cache holds under L's
\* addr:port an entry with Error err and Time t, as long as t is within the
\* timeout and no other write to that addr:port came in; and an IsCached
\* called on a cache holding such an entry returns it, with that Error and
\* Time, unless another write to the addr:port came in.
C12_WritesVisible ==
    \A p \in Procs :
        LET k == WrittenAddrPort(locals[p].line)
        IN /\ (/\ AddEntryReturned(p) /\ k # EmptyStr /\ k \notin touched[p]
               /\ locals[p].lastTested >= clock - EntryTimeout) =>
                  /\ k \in DOMAIN Entries
                  /\ Entries[k].Error = locals[p].errorStr
                  /\ Entries[k].Time = locals[p].lastTested
           /\ (/\ IsCachedReturned(p) /\ k \in DOMAIN atCall[p] /\ k \notin touched[p]
               /\ Fresh(atCall[p][k], clock)) =>
                  /\ ret[p] = PointerTo(k)
                  /\ Entries[k].Error = atCall[p][k].Error
                  /\ Entries[k].Time = atCall[p][k].Time

C12_Witness ==
    /\ AddEntryReturned("h1") /\ locals["h1"].errorStr = "bridge is on fire"
    /\ IsCachedReturned("h2") /\ AP1 \notin touched["h2"]
    /\ AP1 \in DOMAIN atCall["h2"] /\ atCall["h2"][AP1].Error = "bridge is on fire"
    /\ Fresh(atCall["h2"][AP1], clock)
    /\ ret["h2"] = PointerTo(AP1)

\* C13: a bridge line without an addr:port never enters the cache: AddEntry
\* on it leaves the entries as they were, IsCached on it returns nil.
C13_BogusNeverCached ==
    /\ EmptyStr \notin DOMAIN Entries
    /\ \A p \in Procs :
          /\ (AddEntryReturned(p) /\ WrittenAddrPort(locals[p].line) = EmptyStr)
                 => Entries = atCall[p]
          /\ (IsCachedReturned(p) /\ WrittenAddrPort(locals[p].line) = EmptyStr)
                 => ret[p] = Nil

C13_Witness ==
    /\ AddEntryReturned("h1")
    /\ locals["h1"].line = BogusTxt
    /\ DOMAIN Entries = {AP1}

\* C14: the entry a caller received from IsCached does not change while
\* the caller holds it, whatever happens to the cache.
C14_ShallowCopy ==
    [][\A p \in Procs :
          (/\ IsCachedReturned(p) /\ ret[p] # Nil
           /\ pc'[p] = "idle" /\ locals'[p] = locals[p]) =>
              Deref(ret'[p], Entries') = Deref(ret[p], Entries)]_vars

\* C15: at most one goroutine is inside a section that touches the entry
\* map, and it holds the lock; the map changes only in a step of the
\* goroutine that holds the lock; and every call of a cache operation returns.
InSection(p) == pc[p] \in {LockTarget[w] : w \in DOMAIN LockTarget}

MutualExclusion ==
    \A p, q \in Procs :
        /\ InSection(p) <=> l = p
        /\ (InSection(p) /\ InSection(q)) => p = q

C15_SingleLock ==
    /\ []MutualExclusion
    /\ [][Entries' # Entries => (l \in Procs /\ InSection(l) /\ l' = "none")]_vars
    /\ \A p \in Procs : (pc[p] # "idle") ~> (pc[p] = "idle")

C15_Witness ==
    /\ pc["h1"] = "rd_decode" /\ disk.state = "encoded"
    /\ pc["h2"] = "ae_lock"
    /\ AP1 \in DOMAIN Entries

\* C16: FracFunctional returns the number of entries with an empty Error
\* divided by the number of entries, and 0 when there is no entry.
FracFunctionalReturned(p) ==
    pc[p] = "idle" /\ lastOp[p] = "FracFunctional" /\ locals[p].op = "FracFunctional"

C16_FracFunctional ==
    \A p \in Procs : FracFunctionalReturned(p) =>
        LET total == Cardinality(DOMAIN Entries)
            functional == Cardinality({k \in DOMAIN Entries : Entries[k].Error = ""})
            frac == locals[p].frac
        IN /\ frac.den > 0
           /\ total = 0 => frac.num = 0
           /\ total > 0 => frac.num * total = functional * frac.den

\* three functional entries and a failing one give 0.75
C16_Witness ==
    /\ FracFunctionalReturned("h1")
    /\ DOMAIN Entries = {AP1, AP2, AP3, AP4}
    /\ {k \in DOMAIN Entries : Entries[k].Error # ""} = {AP4}
    /\ locals["h1"].frac.num * 4 = 3 * locals["h1"].frac.den

\* C17: after a successful WriteToDisk followed by a successful ReadFromDisk
\* of the same file the cache has the keys it had, each with the Error and
\* Time it had.
ReadBackReturned(p) ==
    /\ pc[p] = "idle" /\ lastOp[p] = "ReadFromDisk" /\ locals[p].op = "ReadFromDisk"
    /\ locals[p].afterWrite /\ ~locals[p].err

C17_DiskRoundTrip ==
    \A p \in Procs : ReadBackReturned(p) =>
        /\ DOMAIN Entries = DOMAIN atCall[p]
        /\ \A k \in DOMAIN Entries :
              /\ Entries[k].Error = atCall[p][k].Error
              /\ Entries[k].Time = atCall[p][k].Time

C17_Witness ==
    /\ ReadBackReturned("h1")
    /\ DOMAIN Entries = {AP1, AP2}
    /\ Entries[AP1].Error = "bridge is on fire" /\ Entries[AP1].Time = 1
    /\ Entries[AP2].Error = "" /\ Entries[AP2].Time = 2

\* os.Create fails for a path that cannot be created, os.Open for that path
\* and for a file that does not exist
OpenFails(op, cacheFile) ==
    \/ cacheFile # CacheFile
    \/ op = "ReadFromDisk" /\ disk.state = "absent"

\* the step is a call by p of ReadFromDisk or WriteToDisk whose file cannot
\* be opened
FailedOpenBy(p) ==
    /\ pc[p] = "idle"
    /\ <<locals[p], lastOp[p]>> # <<locals'[p], lastOp'[p]>>
    /\ locals'[p].op \in {"ReadFromDisk", "WriteToDisk"}
    /\ OpenFails(locals'[p].op, locals'[p].cacheFile)

\* C34: a ReadFromDisk or WriteToDisk that cannot open the cache file returns
\* the error, leaves the entries and the file as they are and does not touch
\* the lock, which the caller does not hold when it has returned.
C34_OpenFailure ==
    [][\A p \in Procs : FailedOpenBy(p) =>
          /\ pc'[p] = "idle"
          /\ lastOp'[p] = locals'[p].op
          /\ locals'[p].err
          /\ Entries' = Entries
          /\ disk' = disk
          /\ l' = l
          /\ l' # p]_vars

C34_Witness ==
    /\ pc["h1"] = "idle"
    /\ lastOp["h1"] = "WriteToDisk"
    /\ locals["h1"].op = "WriteToDisk"
    /\ locals["h1"].cacheFile = BogusFile
    /\ locals["h1"].err
    /\ DOMAIN Entries = {AP1}
    /\ disk.state = "encoded"
    /\ l = "h2"
    /\ pc["h2"] = "ae_insert"

\* in this step an IsCached call returns the entry under k
ReturnsEntry(k) ==
    \E p \in Procs : /\ locals[p].op = "IsCached" /\ pc[p] # "idle" /\ pc'[p] = "idle"
                     /\ ret'[p] = PointerTo(k)

\* in this step an AddEntry stores an entry under k
StoresEntry(k) ==
    \E p \in Procs : /\ locals[p].op = "AddEntry" /\ pc[p] = "ae_insert"
                     /\ pc'[p] # "ae_insert"
                     /\ WrittenAddrPort(locals[p].line) = k

\* C37: the CacheHits of an entry is 0 when AddEntry stores the entry, also
\* over an existing one, grows by one with each IsCached call that returns
\* the entry, however the calls overlap, and changes in no other step; it is
\* never negative.
C37_HitsCounted ==
    [][\A k \in DOMAIN Entries \cup DOMAIN Entries' :
          /\ ReturnsEntry(k) => (k \in DOMAIN Entries /\ k \in DOMAIN Entries')
          /\ StoresEntry(k) => k \in DOMAIN Entries'
          /\ k \in DOMAIN Entries' =>
                /\ Entries'[k].CacheHits >= 0
                /\ Entries'[k].CacheHits =
                      IF StoresEntry(k) THEN 0
                      ELSE IF ReturnsEntry(k) THEN Entries[k].CacheHits + 1
                      ELSE Entries[k].CacheHits]_vars

C37_Witness ==
    /\ IsCachedReturned("h1") /\ IsCachedReturned("h2")
    /\ ret["h1"] = PointerTo(AP1) /\ ret["h2"] = PointerTo(AP1)
    /\ AP1 \in DOMAIN atCall["h1"] /\ atCall["h1"][AP1].CacheHits = 0
    /\ AP1 \in DOMAIN atCall["h2"] /\ atCall["h2"][AP1].CacheHits = 0
    /\ AP1 \notin touched["h1"] /\ AP1 \notin touched["h2"]
    /\ Entries[AP1].CacheHits = 2

\* ------------------------------------------------------------------------
\* Properties of testBridgeLines
\* ------------------------------------------------------------------------
\* C18: when testBridgeLines has returned, the result holds as many verdicts
\* as the batch has lines.
C18_OneVerdictPerLine ==
    hs.phase = "done" => Cardinality(DOMAIN hs.result.Bridges) = Len(hs.bridgeLines)

\* the lines for which IsCached returned nil, in the order of the batch
RECURSIVE NotCached(_, _)
NotCached(lines, seen) ==
    IF lines = << >> THEN << >>
    ELSE (IF Head(seen).nil THEN <<Head(lines)>> ELSE << >>)
         \o NotCached(Tail(lines), Tail(seen))

C20_VerdictsCached ==
    hs.phase = "done" =>
        \A t \in DOMAIN hs.partialResult.Bridges :
            LET addrPort == AddrPortBridgeLine(t)
                verdict  == hs.partialResult.Bridges[t]
            IN addrPort # EmptyStr =>
                  /\ addrPort \in DOMAIN Entries
                  /\ Entries[addrPort].Error = verdict.Error
                  /\ Entries[addrPort].Time = verdict.LastTested

\* the addr:ports of the bridge lines
AddrPorts == {b.addrPort : b \in BridgeLines} \ {EmptyStr}

\* C38: the cache is keyed by addr:port, so it holds one entry per addr:port;
\* after a line was tested, a request for another line with the same
\* addr:port (another transport or other arguments), made while the verdict
\* is within the timeout, is served that verdict from the cache and the line
\* is not handed to the dispatcher.
C38_SharedVerdict ==
    /\ DOMAIN Entries \subseteq AddrPorts
    /\ ~hs.called =>
          \A n \in DOMAIN hs.seen :
              LET b == hs.bridgeLines[n]
                  k == b.addrPort
              IN (/\ k \in DOMAIN hs.tested /\ k # EmptyStr
                  /\ hs.tested[k].line # LineText(b)
                  /\ Fresh([Time |-> hs.tested[k].test.LastTested], clock)) =>
                    /\ ~hs.seen[n].nil
                    /\ b \notin Range(hs.remainingBridgeLines)
                    /\ LineText(b) \in DOMAIN hs.result.Bridges
                    /\ hs.result.Bridges[LineText(b)] = hs.tested[k].test

C38_Witness ==
    /\ hs.phase = "done" /\ ~hs.called
    /\ hs.bridgeLines = <<BridgeLine(Obfs4Sp, AP1, CertArg)>>
    /\ AP1 \in DOMAIN hs.tested
    /\ hs.tested[AP1].line = AP1
    /\ hs.tested[AP1].test.Error = "bridge is on fire"
    /\ hs.result.Bridges[Obfs4Sp \o AP1 \o CertArg].Error = "bridge is on fire"
    /\ DOMAIN Entries = {AP1}

\* ------------------------------------------------------------------------
\* Properties of bridgeLineToAddrPort
\* ------------------------------------------------------------------------
\* the words of a line (separated by spaces) by the position of their first
\* character
WordStarts(s) ==
    {i \in 1..Len(s) : s[i] # " " /\ (i = 1 \/ s[i - 1] = " ")}

WordAt(s, i) == SubSeq(s, i, RunEnd(IsNotSpace, s, i) - 1)

LastColon(w) == MaxOf({0} \cup {c \in 1..Len(w) : w[c] = ":"})

PortText(w) == SubSeq(w, LastColon(w) + 1, Len(w))

\* w is host:port: a host, a colon and a decimal port in 1..65535
IsHostPort(w) ==
    /\ LastColon(w) > 1
    /\ PortText(w) # EmptyStr
    /\ \A k \in 1..Len(PortText(w)) : IsDigit(PortText(w)[k])
    /\ DecimalValue(PortText(w)) \in 1..65535

FirstHostPort(s) ==
    LET Toks == {i \in WordStarts(s) : IsHostPort(WordAt(s, i))}
    IN IF Toks = {} THEN EmptyStr ELSE WordAt(s, MinOf(Toks))

\* C29: what bridgeLineToAddrPort returns for a line is the first host:port
\* word of the line, its port is in 1..65535, and a line without such a
\* word is rejected with an error.
C29_FirstHostPort ==
    lex.pc \in {"addrPort", "again"} =>
        LET tok == FirstHostPort(lex.bridgeLine)
        IN IF tok = EmptyStr THEN lex.addrPort.err
           ELSE /\ ~lex.addrPort.err
                /\ lex.addrPort.val = tok
                /\ DecimalValue(PortText(lex.addrPort.val)) \in 1..65535

\* C30: when bridgeLineToAddrPort succeeded on a line, it succeeds on its own
\* result and returns that result unchanged.
C30_Idempotent ==
    lex.pc = "again" => ~lex.again.err /\ lex.again.val = lex.addrPort.val

\* the addr:port was cut out of a longer line, and found again in itself
C30_Witness ==
    /\ lex.pc = "again"
    /\ lex.addrPort.val # lex.bridgeLine
    /\ lex.again.val = lex.addrPort.val

\* ------------------------------------------------------------------------
\* Properties of makeControlConnection
\* ------------------------------------------------------------------------
DialsFailed(n) == \A i \in 1..n : ~dial.dials[i].ok

\* C27: makeControlConnection returns; it dials at most ten times, a second
\* or more apart; it returns the connection after the first successful dial
\* when the authentication with the empty cookie succeeded, an error without
\* dialling again when the authentication failed, and an error after the
\* tenth failed dial.
C27_ControlConnection ==
    /\ <>(dial.pc = "done")
    /\ [](/\ Len(dial.dials) <= 10
          /\ \A i \in 1..(Len(dial.dials) - 1) :
               /\ dial.dials[i + 1].at >= dial.dials[i].at + 1
               /\ ~dial.dials[i].ok
          /\ Len(dial.auths) <= 1
          /\ \A i \in 1..Len(dial.auths) :
               /\ dial.auths[i].cookie = ""
               /\ dial.dials # << >> /\ dial.dials[Len(dial.dials)].ok
          /\ dial.pc = "done" =>
               \/ /\ dial.ret = "torCtrl"
                  /\ dial.auths # << >> /\ dial.auths[1].ok
               \/ /\ dial.ret = "authentication with tor's control port failed"
                  /\ dial.auths # << >> /\ ~dial.auths[1].ok
               \/ /\ dial.ret = "unable to connect to domain socket"
                  /\ Len(dial.dials) = 10 /\ DialsFailed(10)
                  /\ dial.auths = << >>)

\* the connection was returned after failed dials, a successful one and the
\* authentication
C27_Witness ==
    /\ dial.pc = "done" /\ dial.ret = "torCtrl"
    /\ Len(dial.dials) > 2
    /\ dial.auths = <<[cookie |-> "", ok |-> TRUE]>>

\* ------------------------------------------------------------------------
\* Properties of main
\* ------------------------------------------------------------------------
CallNames(calls) == [i \in DOMAIN calls |-> calls[i].call]

\* C26: after the signal main stops the client, then shuts down the Web
\* server, which takes at most 60 seconds, then writes the cache to disk,
\* whether or not the first two returned an error.
C26_ShutdownOrder ==
    /\ [](/\ CallNames(mainp.calls) \in {<< >>, <<"torCtx.Stop">>, <<"torCtx.Stop", "srv.Shutdown">>}
          /\ \A i \in 1..Len(mainp.calls) : mainp.calls[i].took <= 60
          /\ locals["h1"].op = "WriteToDisk" => Len(mainp.calls) = 2
          /\ mainp.pc = "exit" =>
               /\ locals["h1"].op = "WriteToDisk" /\ lastOp["h1"] = "WriteToDisk"
               /\ locals["h1"].cacheFile = mainp.cacheFile)
    /\ [][disk' # disk => Len(mainp.calls) = 2 /\ mainp.pc = "WriteToDisk"]_vars
    /\ (mainp.pc = "Stop") ~> (mainp.pc = "exit")

\* both calls returned an error and the cache, which is not empty, is in the
\* file
C26_Witness ==
    /\ mainp.pc = "exit"
    /\ \A i \in 1..2 : mainp.calls[i].err
    /\ disk.state = "encoded" /\ DOMAIN disk.data # {}

\* ------------------------------------------------------------------------
\* Properties of the request queue and its dispatcher
\* ------------------------------------------------------------------------
\* C21: at most one test is in flight: the dispatcher starts no test while
\* an earlier one has not posted its reply.
C21_OneInFlight == disp.running <= 1

\* C32: every request put on the queue gets its reply, the requests that
\* are buffered when the dispatcher is told to shut down included: once
\* dispatchRequests has returned, no request is left in the queue and no
\* handler waits to send one, since nothing else receives from the queue.
C32_EveryRequestReplied ==
    disp.pc = "returned" => (disp.reqChan = 0 /\ disp.blocked = 0)

\* C33: after the dispatcher handed a request to processing, at least
\* NumSeconds seconds pass before it takes the next request from the queue.
C33_RequestsSpaced == disp.gap >= NumSeconds

\* C22: the request queue holds at most 100 requests and no handler waits
\* to enqueue its request.
C22_QueueRefuses == disp.reqChan <= 100 /\ disp.blocked = 0

\* ------------------------------------------------------------------------
\* Properties of bootstrapTorOverBridgeWrapped
\* ------------------------------------------------------------------------
\* C24: the tor process is not killed by the timeout of a test, and a test
\* that ran into its timeout reports the error "timed out waiting for bridge
\* descriptor".
C24_DeadlineVerdict ==
    /\ test.proc # "killed"
    /\ test.pc = "done" /\ test.by = "NextEvent" /\ test.now = TorBootstrapTimeout
           => test.ret = Errorf("timed out waiting for bridge descriptor")

C28_StatusCodes ==
    /\ [](http.pc = "done" /\ http.req.body = "parsed" =>
            LET n == Len(http.req.BridgeLines)
            IN /\ (n = 0 \/ n > 100) => http.w.status = 400 /\ Entries = http.atRequest
               /\ http.marshalErr =>
                     /\ http.w.status = 500
                     /\ http.w.body = <<Text("failed to marshal test tesult")>>
               /\ (n \in 1..100 /\ ~http.marshalErr) => http.w.status = 200)
    /\ [][(http.pc = "ReadAll" /\ http'.pc = "done") => UNCHANGED cacheVars]_vars

\* ------------------------------------------------------------------------
\* Properties of the batch dispatcher
\* ------------------------------------------------------------------------
\* C23: every event fed to the parsers of a batch was emitted for that
\* batch: no event of an earlier batch, emitted late or left in the queue
\* while no batch was in flight, reaches a parser of the next batch.
C23_BatchIsolation == \A f \in bus.fed : f.event = f.batch

====
